---- MODULE Spec2Model ----
(***************************************************************************)
(* A model of the fastjson parser core: the arena-backed recursive-descent *)
(* parser (Parser.Parse), the lazy value tree with its accessors and       *)
(* mutators, and the stream Scanner.                                       *)
(*                                                                         *)
(* Conventions.                                                            *)
(*  - A byte is its code (0..255); a Go string or []byte is a sequence of  *)
(*    bytes.  A string that is a slice of the working buffer is kept as    *)
(*    (off, len) into the buffer, so that in-place unescaping is visible;  *)
(*    a string handed in by the caller (a key given to Set) is a literal.  *)
(*  - A *Value is an address into mem; NIL is the nil pointer.  The three  *)
(*    singletons live at fixed addresses.                                  *)
(*  - cache.vs is a backing array of addresses (its length is the          *)
(*    capacity) and a length.  Growing it moves the structs to fresh       *)
(*    addresses, as append does; pointers handed out before keep naming    *)
(*    the old structs.                                                     *)
(*  - Value.a and Object.kvs are kept by value: their spare capacity is    *)
(*    only reachable through the length the code sets itself.              *)
(*  - An error is the sequence of its message tags, outermost first; nil   *)
(*    is the empty sequence.                                               *)
(***************************************************************************)
EXTENDS Integers, Sequences, FiniteSets, TLC

VARIABLES
    b,      \* Parser.b / Scanner.b: the working copy of the input
    heap,   \* [mem, arr, len]: the Value structs and cache.vs
    v,      \* the root returned by Parse / Scanner.v
    err,    \* the error of the last Parse / Scanner.err
    pos,    \* Scanner.s as an offset into b
    last,   \* the last call and what it returned to the caller
    hist,   \* what the caller remembers of earlier calls
    stack   \* the calls of parseArray and parseObject in progress

vars == <<b, heap, v, err, pos, last, hist, stack>>

-----------------------------------------------------------------------------
(* Bytes *)

Ch == [tab |-> 9, lf |-> 10, vt |-> 11, ff |-> 12, cr |-> 13, bel |-> 7, bs |-> 8,
       soh |-> 1, sp |-> 32, quote |-> 34, plus |-> 43, comma |-> 44,
       minus |-> 45, dot |-> 46, slash |-> 47, d0 |-> 48, d1 |-> 49, d2 |-> 50,
       d9 |-> 57, colon |-> 58, A |-> 65, E |-> 69, F |-> 70, I |-> 73, N |-> 78,
       Z |-> 90, lbrack |-> 91, bslash |-> 92, rbrack |-> 93,
       a |-> 97, b |-> 98, e |-> 101, f |-> 102, i |-> 105, k |-> 107, l |-> 108,
       n |-> 110, r |-> 114, s |-> 115, t |-> 116, u |-> 117, v |-> 118,
       x |-> 120, y |-> 121, z |-> 122, lbrace |-> 123, rbrace |-> 125, del |-> 127]

LitTrue  == <<Ch.t, Ch.r, Ch.u, Ch.e>>
LitFalse == <<Ch.f, Ch.a, Ch.l, Ch.s, Ch.e>>
LitNull  == <<Ch.n, Ch.u, Ch.l, Ch.l>>
LitNan   == <<Ch.n, Ch.a, Ch.n>>
LitInf   == <<Ch.i, Ch.n, Ch.f>>

Min(S) == CHOOSE m \in S : \A o \in S : m <= o
Max(S) == CHOOSE m \in S : \A o \in S : m >= o

\* s[from:] of a sequence, from counted from 0
Drop(s, from) == SubSeq(s, from + 1, Len(s))

\* x := e, followed by the statements that use x
With(e, Body(_)) == Body(e)

\* strings.IndexByte(b[p:], c): the offset of the first c at or after p, relative
\* to p, or -1
IndexByte(bb, p, c) ==
    LET hits == {i \in 0..(Len(bb) - p - 1) : bb[p + i + 1] = c}
    IN IF hits = {} THEN -1 ELSE Min(hits)

\* unicode.ToLower on an ASCII byte, as strings.EqualFold compares
Lower(c) == IF c >= Ch.A /\ c <= Ch.Z THEN c + 32 ELSE c

\* strings.EqualFold(xs, lit) for a lower-case ASCII literal
EqualFold(xs, lit) ==
    /\ Len(xs) = Len(lit)
    /\ \A i \in 1..Len(lit) : Lower(xs[i]) = lit[i]

-----------------------------------------------------------------------------
(* Strings: slices of the buffer, or literals of the caller *)

BufStr(off, len) == [buf |-> TRUE, off |-> off, len |-> len, lit |-> <<>>]
LitStr(x) == [buf |-> FALSE, off |-> 0, len |-> Len(x), lit |-> x]
EmptyStr == LitStr(<<>>)

\* the bytes of a string
Bytes(bb, s) == IF s.buf THEN SubSeq(bb, s.off + 1, s.off + s.len) ELSE s.lit

-----------------------------------------------------------------------------
(* Types and values *)

TypeNull == 0
TypeObject == 1
TypeArray == 2
TypeString == 3
TypeNumber == 4
TypeTrue == 5
TypeFalse == 6
typeRawString == 7

MaxDepth == 300

NIL == 0
valueTrue == 1
valueFalse == 2
valueNull == 3

\* Value{}: the zero struct
ZeroValue == [t |-> TypeNull, s |-> EmptyStr, a |-> <<>>, kvs |-> <<>>, ku |-> FALSE]

\* the process-wide structs behind valueTrue, valueFalse and valueNull
Singletons ==
    <<[ZeroValue EXCEPT !.t = TypeTrue], [ZeroValue EXCEPT !.t = TypeFalse],
      [ZeroValue EXCEPT !.t = TypeNull]>>

\* a new Parser or Scanner: no structs but the singletons, an empty cache
EmptyHeap == [mem |-> Singletons, arr |-> <<>>, len |-> 0]

\* the capacity append gives a full slice of capacity c
GrowCap(c) == IF c = 0 THEN 1 ELSE 2 * c

\* cache.reset
reset(H) == [H EXCEPT !.len = 0]

\* getValue growing the backing array without counting the new element, so
\* that the next call hands out the same slot
getValueAgain(H) ==
    IF Len(H.arr) > H.len
    THEN [H |-> [H EXCEPT !.len = H.len + 1], v |-> H.arr[H.len + 1]]
    ELSE LET newcap == GrowCap(Len(H.arr))
             base == Len(H.mem)
             moved == [i \in 1..newcap |->
                          IF i <= H.len THEN H.mem[H.arr[i]] ELSE ZeroValue]
         IN [H |-> [mem |-> H.mem \o moved,
                    arr |-> [i \in 1..newcap |-> base + i],
                    len |-> H.len],
             v |-> base + H.len + 1]

\* cache.getValue: the next slot, stale as the last parse left it, or a new
\* backing array when the slice is full
getValue(H) ==
    IF Len(H.arr) > H.len
    THEN [H |-> [H EXCEPT !.len = H.len + 1], v |-> H.arr[H.len + 1]]
    ELSE LET newcap == GrowCap(Len(H.arr))
             base == Len(H.mem)
             moved == [i \in 1..newcap |->
                          IF i <= H.len THEN H.mem[H.arr[i]] ELSE ZeroValue]
         IN [H |-> [mem |-> H.mem \o moved,
                    arr |-> [i \in 1..newcap |-> base + i],
                    len |-> H.len + 1],
             v |-> base + H.len + 1]

\* a write through the pointer p
Store(H, p, val) == [H EXCEPT !.mem[p] = val]

-----------------------------------------------------------------------------
(* Whitespace *)

RECURSIVE skipWSLoop(_, _, _)
skipWSLoop(bb, p, i) ==
    IF i >= Len(bb) - p THEN Len(bb)
    ELSE IF bb[p + i + 1] # 32 /\ bb[p + i + 1] # 10 /\ bb[p + i + 1] # 9
            /\ bb[p + i + 1] # 13
         THEN p + i
         ELSE skipWSLoop(bb, p, i + 1)

skipWSSlow(bb, p) ==
    IF Len(bb) - p = 0
       \/ (bb[p + 1] # 32 /\ bb[p + 1] # 10 /\ bb[p + 1] # 9 /\ bb[p + 1] # 13)
    THEN p
    ELSE skipWSLoop(bb, p, 1)

\* skipWS taking every byte up to 0x20 for whitespace
skipWSSloppy(bb, p) ==
    IF Len(bb) - p = 0 \/ bb[p + 1] > 32 THEN p
    ELSE Min({i \in p..Len(bb) : i = Len(bb) \/ bb[i + 1] > 32})

\* skipWS(b[p:]) as the offset of what is left
skipWS(bb, p) ==
    IF Len(bb) - p = 0 \/ bb[p + 1] > 32 THEN p ELSE skipWSSlow(bb, p)

-----------------------------------------------------------------------------
(* Raw tokenizers.  Each returns the raw slice, the offset of the tail and  *)
(* the error.                                                              *)

ErrNoQuote == <<"missing closing '\"'">>

\* the count that looks at the backslash right before the quote only
countBackslashesOne(bb, q, i) == i

RECURSIVE countBackslashes(_, _, _)
\* for i > 0 && s[i-1] == '\\' { i-- }, s = b[q:]
countBackslashes(bb, q, i) ==
    IF i > 0 /\ bb[q + i] = Ch.bslash THEN countBackslashes(bb, q, i - 1) ELSE i

RECURSIVE parseRawStringSlow(_, _, _, _)
\* the slow path's loop: ss = b[p:], s = b[q:], n the offset in s of a quote
\* that follows a backslash
parseRawStringSlow(bb, p, q, n) ==
    LET i == countBackslashes(bb, q, n - 1)
    IN IF (n - i) % 2 = 0
       THEN [raw |-> BufStr(p, (q - p) + n), tail |-> q + n + 1, err |-> <<>>]
       ELSE LET q1 == q + n + 1
                n1 == IndexByte(bb, q1, Ch.quote)
            IN IF n1 < 0
               THEN [raw |-> BufStr(p, Len(bb) - p), tail |-> Len(bb),
                     err |-> ErrNoQuote]
               ELSE IF n1 = 0 \/ bb[q1 + n1] # Ch.bslash
                    THEN [raw |-> BufStr(p, (q1 - p) + n1), tail |-> q1 + n1 + 1,
                          err |-> <<>>]
                    ELSE parseRawStringSlow(bb, p, q1, n1)

parseRawString(bb, p) ==
    LET n == IndexByte(bb, p, Ch.quote)
    IN IF n < 0
       THEN [raw |-> BufStr(p, Len(bb) - p), tail |-> Len(bb), err |-> ErrNoQuote]
       ELSE IF n = 0 \/ bb[p + n] # Ch.bslash
            THEN [raw |-> BufStr(p, n), tail |-> p + n + 1, err |-> <<>>]
            ELSE parseRawStringSlow(bb, p, p, n)

RECURSIVE parseRawKeyLoop(_, _, _)
parseRawKeyLoop(bb, p, i) ==
    IF i >= Len(bb) - p
    THEN [raw |-> BufStr(p, Len(bb) - p), tail |-> Len(bb), err |-> ErrNoQuote]
    ELSE IF bb[p + i + 1] = Ch.quote
         THEN [raw |-> BufStr(p, i), tail |-> p + i + 1, err |-> <<>>]
         ELSE IF bb[p + i + 1] = Ch.bslash
              THEN parseRawString(bb, p)
              ELSE parseRawKeyLoop(bb, p, i + 1)

parseRawKey(bb, p) == parseRawKeyLoop(bb, p, 0)

IsNumberChar(c) ==
    \/ (c >= Ch.d0 /\ c <= Ch.d9)
    \/ c = Ch.dot \/ c = Ch.minus \/ c = Ch.e \/ c = Ch.E \/ c = Ch.plus

RECURSIVE parseRawNumberLoop(_, _, _)
parseRawNumberLoop(bb, p, i) ==
    IF i >= Len(bb) - p
    THEN [raw |-> BufStr(p, Len(bb) - p), tail |-> Len(bb), err |-> <<>>]
    ELSE IF IsNumberChar(bb[p + i + 1])
         THEN parseRawNumberLoop(bb, p, i + 1)
         ELSE IF i = 0 \/ (i = 1 /\ (bb[p + 1] = Ch.minus \/ bb[p + 1] = Ch.plus))
              THEN IF Len(bb) - (p + i) >= 3
                      /\ (\/ EqualFold(SubSeq(bb, p + i + 1, p + i + 3), LitInf)
                          \/ EqualFold(SubSeq(bb, p + i + 1, p + i + 3), LitNan))
                   THEN [raw |-> BufStr(p, i + 3), tail |-> p + i + 3, err |-> <<>>]
                   ELSE [raw |-> EmptyStr, tail |-> p, err |-> <<"unexpected char">>]
              ELSE [raw |-> BufStr(p, i), tail |-> p + i, err |-> <<>>]

parseRawNumber(bb, p) == parseRawNumberLoop(bb, p, 0)

-----------------------------------------------------------------------------
(* The recursive descent.  Each function returns [err, v, tail, H].        *)

Fail(e, tail, H) == [err |-> e, v |-> NIL, tail |-> tail, H |-> H]
Done(val, tail, H) == [err |-> <<>>, v |-> val, tail |-> tail, H |-> H]
Wrap(tag, e) == <<tag>> \o e

ErrDepth == <<"too big depth for the nested JSON">>

\* s[:len(lit)] == lit for s = b[p:]
HasPrefix(bb, p, lit) ==
    /\ Len(bb) - p >= Len(lit)
    /\ SubSeq(bb, p + 1, p + Len(lit)) = lit

\* v := c.getValue(); v.t = t; v.s = s
SetLeaf(g, t, s) ==
    [H |-> Store(g.H, g.v, [g.H.mem[g.v] EXCEPT !.t = t, !.s = s]), v |-> g.v]

NewLeaf(H, t, s) == SetLeaf(getValue(H), t, s)

\* return v, tail, nil for the leaf g
DoneLeaf(g, tail) == Done(g.v, tail, g.H)

\* if err != nil { return nil, tail, fmt.Errorf("...: %s", err) }; return r
WrapErr(r, tag) ==
    IF r.err # <<>> THEN Fail(Wrap(tag, r.err), r.tail, r.H) ELSE r

\* the string and the number case of parseValue, r the raw token
LeafOf(r, H, t, tag) ==
    IF r.err # <<>>
    THEN Fail(Wrap(tag, r.err), r.tail, H)
    ELSE DoneLeaf(NewLeaf(H, t, r.raw), r.tail)

\* the check taken before depth++
TooDeepOffByOne(depth0) == depth0 > MaxDepth

\* depth++; if depth > MaxDepth
TooDeep(depth0) == depth0 + 1 > MaxDepth

\* the cases of parseValue that call neither parseObject nor parseArray
parseScalar(bb, p, H) ==
    IF bb[p + 1] = Ch.quote
    THEN LeafOf(parseRawString(bb, p + 1), H, typeRawString, "cannot parse string")
    ELSE IF bb[p + 1] = Ch.t
    THEN IF ~HasPrefix(bb, p, LitTrue)
         THEN Fail(<<"unexpected value found">>, p, H)
         ELSE Done(valueTrue, p + Len(LitTrue), H)
    ELSE IF bb[p + 1] = Ch.f
    THEN IF ~HasPrefix(bb, p, LitFalse)
         THEN Fail(<<"unexpected value found">>, p, H)
         ELSE Done(valueFalse, p + Len(LitFalse), H)
    ELSE IF bb[p + 1] = Ch.n
    THEN IF ~HasPrefix(bb, p, LitNull)
         THEN IF Len(bb) - p >= 3 /\ EqualFold(SubSeq(bb, p + 1, p + 3), LitNan)
              THEN DoneLeaf(NewLeaf(H, TypeNumber, BufStr(p, 3)), p + 3)
              ELSE Fail(<<"unexpected value found">>, p, H)
         ELSE Done(valueNull, p + Len(LitNull), H)
    ELSE LeafOf(parseRawNumber(bb, p), H, TypeNumber, "cannot parse number")

\* a := c.getValue(); a.t = TypeArray; a.a = a.a[:0]
SetArray(g) ==
    [H |-> Store(g.H, g.v, [g.H.mem[g.v] EXCEPT !.t = TypeArray, !.a = <<>>]),
     v |-> g.v]

NewArray(H) == SetArray(getValue(H))

\* a.a = append(a.a, v)
arrayAppend(H, a, val) == Store(H, a, [H.mem[a] EXCEPT !.a = Append(@, val)])

\* Object.reset that leaves keysUnescaped as it is
objResetKeepsFlag(val) == [val EXCEPT !.kvs = <<>>]

\* Object.reset
objReset(val) == [val EXCEPT !.kvs = <<>>, !.ku = FALSE]

\* o := c.getValue(); o.t = TypeObject; o.o.reset()
SetObject(g) ==
    [H |-> Store(g.H, g.v, objReset([g.H.mem[g.v] EXCEPT !.t = TypeObject])),
     v |-> g.v]

NewObject(H) == SetObject(getValue(H))

\* Object.getKV: one more entry at the end, to be filled in by the caller
getKV(val) == [val EXCEPT !.kvs = Append(@, [k |-> EmptyStr, v |-> NIL])]

\* kv.v = v for kv the entry getKV returned last
kvStore(H, o, val) ==
    Store(H, o, [H.mem[o] EXCEPT !.kvs[Len(H.mem[o].kvs)].v = val])

\* a turn of parseObject's loop from the key up to the value: kv is entry idx
\* of o, p the offset after skipWS.  Returns the error, the offset of the
\* value and the heap.
parseObjectKey(bb, p, H0, o, idx) ==
    IF Len(bb) - p = 0 \/ bb[p + 1] # Ch.quote
    THEN Fail(<<"cannot find opening '\"' for object key">>, p, H0)
    ELSE With(parseRawKey(bb, p + 1), LAMBDA rk :
         With(Store(H0, o, [H0.mem[o] EXCEPT !.kvs[idx].k = rk.raw]), LAMBDA H1 :
            IF rk.err # <<>>
            THEN Fail(Wrap("cannot parse object key", rk.err), rk.tail, H1)
            ELSE With(skipWS(bb, rk.tail), LAMBDA q :
                 IF Len(bb) - q = 0 \/ bb[q + 1] # Ch.colon
                 THEN Fail(<<"missing ':' after object key">>, q, H1)
                 ELSE Done(NIL, skipWS(bb, q + 1), H1))))

\* kv := o.o.getKV() and the turn up to the value
parseObjectTurn(bb, p0, H, o) ==
    parseObjectKey(bb, skipWS(bb, p0), Store(H, o, getKV(H.mem[o])), o,
                   Len(H.mem[o].kvs) + 1)

RECURSIVE parseValue(_, _, _, _)
RECURSIVE parseArray(_, _, _, _)
RECURSIVE parseArrayLoop(_, _, _, _, _)
RECURSIVE parseArrayNext(_, _, _, _, _)
RECURSIVE parseObject(_, _, _, _)
RECURSIVE parseObjectLoop(_, _, _, _, _)
RECURSIVE parseObjectNext(_, _, _, _, _)

parseValue(bb, p, H, depth0) ==
    IF Len(bb) - p = 0 THEN Fail(<<"cannot parse empty string">>, p, H)
    ELSE IF TooDeep(depth0) THEN Fail(ErrDepth, p, H)
    ELSE IF bb[p + 1] = Ch.lbrace
    THEN WrapErr(parseObject(bb, p + 1, H, depth0 + 1), "cannot parse object")
    ELSE IF bb[p + 1] = Ch.lbrack
    THEN WrapErr(parseArray(bb, p + 1, H, depth0 + 1), "cannot parse array")
    ELSE parseScalar(bb, p, H)

\* parseArray after its first skipWS, p the offset that left
parseArrayAt(bb, p, H, depth) ==
    IF Len(bb) - p = 0 THEN Fail(<<"missing ']'">>, p, H)
    ELSE With(NewArray(H), LAMBDA g :
            IF bb[p + 1] = Ch.rbrack
            THEN Done(g.v, p + 1, g.H)
            ELSE parseArrayLoop(bb, p, g.H, depth, g.v))

parseArray(bb, p0, H, depth) == parseArrayAt(bb, skipWS(bb, p0), H, depth)

\* one turn of parseArray's for loop; a is the array node
parseArrayLoop(bb, p0, H, depth, a) ==
    With(parseValue(bb, skipWS(bb, p0), H, depth), LAMBDA r :
        IF r.err # <<>>
        THEN Fail(Wrap("cannot parse array value", r.err), r.tail, r.H)
        ELSE parseArrayNext(bb, skipWS(bb, r.tail), arrayAppend(r.H, a, r.v),
                            depth, a))

\* the rest of the turn: the value is stored, q is the offset after skipWS
parseArrayNext(bb, q, H1, depth, a) ==
    IF Len(bb) - q = 0 THEN Fail(<<"unexpected end of array">>, q, H1)
    ELSE IF bb[q + 1] = Ch.comma
         THEN parseArrayLoop(bb, q + 1, H1, depth, a)
         ELSE IF bb[q + 1] = Ch.rbrack
              THEN Done(a, q + 1, H1)
              ELSE Fail(<<"missing ',' after array value">>, q, H1)

\* parseObject after its first skipWS, p the offset that left
parseObjectAt(bb, p, H, depth) ==
    IF Len(bb) - p = 0 THEN Fail(<<"missing '}'">>, p, H)
    ELSE With(NewObject(H), LAMBDA g :
            IF bb[p + 1] = Ch.rbrace
            THEN Done(g.v, p + 1, g.H)
            ELSE parseObjectLoop(bb, p, g.H, depth, g.v))

parseObject(bb, p0, H, depth) == parseObjectAt(bb, skipWS(bb, p0), H, depth)

\* one turn of parseObject's for loop; o is the object node
parseObjectLoop(bb, p0, H, depth, o) ==
    With(parseObjectTurn(bb, p0, H, o), LAMBDA k :
        IF k.err # <<>> THEN k
        ELSE With(parseValue(bb, k.tail, k.H, depth), LAMBDA r :
                IF r.err # <<>>
                THEN Fail(Wrap("cannot parse object value", r.err), r.tail, r.H)
                ELSE parseObjectNext(bb, skipWS(bb, r.tail), kvStore(r.H, o, r.v),
                                     depth, o)))

\* the rest of the turn: the value is stored, q2 is the offset after skipWS
parseObjectNext(bb, q2, H2, depth, o) ==
    IF Len(bb) - q2 = 0 THEN Fail(<<"unexpected end of object">>, q2, H2)
    ELSE IF bb[q2 + 1] = Ch.comma
         THEN parseObjectLoop(bb, q2 + 1, H2, depth, o)
         ELSE IF bb[q2 + 1] = Ch.rbrace
              THEN Done(o, q2 + 1, H2)
              ELSE Fail(<<"missing ',' after object value">>, q2, H2)

\* Parser.Parse after p.b = append(p.b[:0], s...): nb is the buffer
ParseBuf(nb, H) ==
    With(parseValue(nb, 0, reset(H), 0), LAMBDA r :
        IF r.err # <<>>
        THEN [b |-> nb, H |-> r.H, v |-> NIL, err |-> Wrap("cannot parse JSON", r.err)]
        ELSE IF Len(nb) - skipWS(nb, r.tail) > 0
             THEN [b |-> nb, H |-> r.H, v |-> NIL, err |-> <<"unexpected tail">>]
             ELSE [b |-> nb, H |-> r.H, v |-> r.v, err |-> <<>>])

\* Parser.Parse(s) on a parser whose cache is H: the new buffer, the heap, the
\* value and the error returned
Parse(s, H) == ParseBuf(Drop(s, skipWS(s, 0)), H)

-----------------------------------------------------------------------------
(* The string unescaper.  It writes into the memory it reads from: bs is    *)
(* that memory, w the offset the next byte is written at (off + len(b) of   *)
(* the code), r the offset of the next byte to read (s of the code is       *)
(* bs[r:end]).  Every read is made from the memory as the writes before it  *)
(* left it.                                                                *)

\* dst with src written at offset w
WriteAt(bs, w, src) ==
    [i \in 1..Len(bs) |-> IF i > w /\ i <= w + Len(src) THEN src[i - w] ELSE bs[i]]

IsHex(c) ==
    \/ (c >= Ch.d0 /\ c <= Ch.d9)
    \/ (c >= Ch.a /\ c <= Ch.f)
    \/ (c >= Ch.A /\ c <= Ch.F)

HexVal(c) ==
    IF c >= Ch.d0 /\ c <= Ch.d9 THEN c - Ch.d0
    ELSE IF c >= Ch.a /\ c <= Ch.f THEN c - Ch.a + 10
    ELSE c - Ch.A + 10

\* strconv.ParseUint(xs, 16, 16) of four bytes: -1 for an error
ParseHex4(xs) ==
    IF \A i \in 1..4 : IsHex(xs[i])
    THEN HexVal(xs[1]) * 4096 + HexVal(xs[2]) * 256 + HexVal(xs[3]) * 16 + HexVal(xs[4])
    ELSE -1

\* utf16.IsSurrogate
IsSurrogate(x) == x >= 55296 /\ x < 57344

\* utf16.DecodeRune: U+FFFD unless r1 is a high and r2 a low surrogate
DecodeRune(r1, r2) ==
    IF r1 >= 55296 /\ r1 < 56320 /\ r2 >= 56320 /\ r2 < 57344
    THEN (r1 - 55296) * 1024 + (r2 - 56320) + 65536
    ELSE 65533

\* an overlong encoding: seven bytes for every code point
Utf8Overlong(x) ==
    <<254, 128, 128 + (x \div 262144), 128 + ((x \div 4096) % 64),
      128 + ((x \div 64) % 64), 128 + (x % 64), 128>>

\* string(rune(x)): the UTF-8 encoding
Utf8(x) ==
    IF x < 128 THEN <<x>>
    ELSE IF x < 2048 THEN <<192 + (x \div 64), 128 + (x % 64)>>
    ELSE IF IsSurrogate(x) THEN <<239, 191, 189>>
    ELSE IF x < 65536
         THEN <<224 + (x \div 4096), 128 + ((x \div 64) % 64), 128 + (x % 64)>>
         ELSE <<240 + (x \div 262144), 128 + ((x \div 4096) % 64),
                128 + ((x \div 64) % 64), 128 + (x % 64)>>

\* the switch on the byte after a backslash: ch has been read and r is past it.
\* Returns the memory and the offsets after the case's appends.
unescapeCase(bs, w, r, end, ch) ==
    LET one(c) == [bs |-> WriteAt(bs, w, <<c>>), w |-> w + 1, r |-> r]
        literalU == [bs |-> WriteAt(bs, w, <<Ch.bslash, Ch.u>>), w |-> w + 2, r |-> r]
    IN IF ch = Ch.quote THEN one(Ch.quote)
       ELSE IF ch = Ch.bslash THEN one(Ch.bslash)
       ELSE IF ch = Ch.slash THEN one(Ch.slash)
       ELSE IF ch = Ch.b THEN one(Ch.bs)
       ELSE IF ch = Ch.f THEN one(Ch.ff)
       ELSE IF ch = Ch.n THEN one(Ch.lf)
       ELSE IF ch = Ch.r THEN one(Ch.cr)
       ELSE IF ch = Ch.t THEN one(Ch.tab)
       ELSE IF ch = Ch.u
       THEN IF end - r < 4 THEN literalU
            ELSE LET x == ParseHex4(SubSeq(bs, r + 1, r + 4))
                 IN IF x < 0 THEN literalU
                    ELSE IF ~IsSurrogate(x)
                    THEN [bs |-> WriteAt(bs, w, Utf8(x)), w |-> w + Len(Utf8(x)),
                          r |-> r + 4]
                    ELSE LET r4 == r + 4
                             \* b = append(b, "\\u"...); b = append(b, xs...)
                             orphan ==
                                 LET bs1 == WriteAt(bs, w, <<Ch.bslash, Ch.u>>)
                                 IN [bs |-> WriteAt(bs1, w + 2, SubSeq(bs1, r + 1, r + 4)),
                                     w |-> w + 6, r |-> r4]
                         IN IF end - r4 < 6 \/ bs[r4 + 1] # Ch.bslash \/ bs[r4 + 2] # Ch.u
                            THEN orphan
                            ELSE LET x1 == ParseHex4(SubSeq(bs, r4 + 3, r4 + 6))
                                 IN IF x1 < 0 THEN orphan
                                    ELSE LET enc == Utf8(DecodeRune(x, x1))
                                         IN [bs |-> WriteAt(bs, w, enc),
                                             w |-> w + Len(enc), r |-> r4 + 6]
       ELSE [bs |-> WriteAt(bs, w, <<Ch.bslash, ch>>), w |-> w + 2, r |-> r]

\* the first backslash of bs[r:end], relative to r, or -1
IndexBackslash(bs, r, end) ==
    LET hits == {i \in 0..(end - r - 1) : bs[r + i + 1] = Ch.bslash}
    IN IF hits = {} THEN -1 ELSE Min(hits)

RECURSIVE unescapeLoop(_, _, _, _)
\* for len(s) > 0 { ... }: returns the memory and the end of the result
unescapeLoop(bs, w, r, end) ==
    IF r >= end THEN [bs |-> bs, w |-> w]
    ELSE With(unescapeCase(bs, w, r + 1, end, bs[r + 1]), LAMBDA c :
         With(IndexBackslash(c.bs, c.r, end), LAMBDA n :
            IF n < 0
            THEN [bs |-> WriteAt(c.bs, c.w, SubSeq(c.bs, c.r + 1, end)),
                  w |-> c.w + (end - c.r)]
            ELSE unescapeLoop(WriteAt(c.bs, c.w, SubSeq(c.bs, c.r + 1, c.r + n)),
                              c.w + n, c.r + n + 1, end)))

\* unescapeStringBestEffort on the string at bs[off:off+len]: the memory
\* afterwards and the length of the result, which starts at off
unescapeInPlace(bs, off, len) ==
    With(IndexBackslash(bs, off, off + len), LAMBDA n :
        IF n < 0 THEN [bs |-> bs, len |-> len]
        ELSE With(unescapeLoop(bs, off + n, off + n + 1, off + len), LAMBDA u :
                [bs |-> u.bs, len |-> u.w - off]))

\* unescapeStringBestEffort that closes the gap it leaves: the bytes after
\* the string move down to the end of the result, spaces fill the end
unescapeStringClosesGap(bb, s) ==
    With(unescapeInPlace(IF s.buf THEN bb ELSE s.lit, s.off, s.len), LAMBDA u :
        IF s.buf
        THEN [b |-> [i \in 1..Len(bb) |->
                        IF i <= s.off + u.len THEN u.bs[i]
                        ELSE IF i + (s.len - u.len) <= Len(bb)
                        THEN u.bs[i + (s.len - u.len)]
                        ELSE Ch.sp],
              s |-> BufStr(s.off, u.len)]
        ELSE [b |-> bb, s |-> LitStr(SubSeq(u.bs, 1, u.len))])

\* unescapeStringBestEffort(s) with the buffer bb: the buffer afterwards and
\* the string returned
unescapeStringBestEffort(bb, s) ==
    With(unescapeInPlace(IF s.buf THEN bb ELSE s.lit, s.off, s.len), LAMBDA u :
        IF s.buf
        THEN [b |-> u.bs, s |-> BufStr(s.off, u.len)]
        ELSE [b |-> bb, s |-> LitStr(SubSeq(u.bs, 1, u.len))])

-----------------------------------------------------------------------------
(* The escaper *)

hasSpecialChars(s) ==
    \/ \E i \in 1..Len(s) : s[i] = Ch.quote
    \/ \E i \in 1..Len(s) : s[i] = Ch.bslash
    \/ \E i \in 1..Len(s) : s[i] < 32

HexDigit(d) == IF d < 10 THEN Ch.d0 + d ELSE Ch.a + (d - 10)

\* what strconv.AppendQuote writes for one byte: Go's escapes, \xNN for the
\* other control bytes.  A byte from 128 on stands for a part of a printable
\* UTF-8 sequence and is copied.
QuoteByte(c) ==
    IF c = Ch.quote THEN <<Ch.bslash, Ch.quote>>
    ELSE IF c = Ch.bslash THEN <<Ch.bslash, Ch.bslash>>
    ELSE IF c = Ch.bel THEN <<Ch.bslash, Ch.a>>
    ELSE IF c = Ch.bs THEN <<Ch.bslash, Ch.b>>
    ELSE IF c = Ch.ff THEN <<Ch.bslash, Ch.f>>
    ELSE IF c = Ch.lf THEN <<Ch.bslash, Ch.n>>
    ELSE IF c = Ch.cr THEN <<Ch.bslash, Ch.r>>
    ELSE IF c = Ch.tab THEN <<Ch.bslash, Ch.t>>
    ELSE IF c = Ch.vt THEN <<Ch.bslash, Ch.v>>
    ELSE IF c < 32 \/ c = Ch.del
         THEN <<Ch.bslash, Ch.x, HexDigit(c \div 16), HexDigit(c % 16)>>
         ELSE <<c>>

RECURSIVE QuoteBytes(_)
QuoteBytes(s) == IF s = <<>> THEN <<>> ELSE QuoteByte(Head(s)) \o QuoteBytes(Tail(s))

\* strconv.AppendQuote(nil, s)
AppendQuote(s) == <<Ch.quote>> \o QuoteBytes(s) \o <<Ch.quote>>

\* escapeString(nil, s)
escapeString(s) ==
    IF ~hasSpecialChars(s) THEN <<Ch.quote>> \o s \o <<Ch.quote>> ELSE AppendQuote(s)

-----------------------------------------------------------------------------
(* Marshalling.  A nil pointer or an unknown tag panics: the output then    *)
(* holds the mark -1, which is no byte.                                     *)

Panic == <<-1>>

\* the typeRawString case with the string escaped again
RawQuotedEscaped(bb, s) == escapeString(Bytes(bb, s))

\* the typeRawString case of Value.MarshalTo and the raw keys of
\* Object.MarshalTo: the bytes between quotes
RawQuoted(bb, s) == <<Ch.quote>> \o Bytes(bb, s) \o <<Ch.quote>>

RECURSIVE ValueMarshalTo(_, _, _)
RECURSIVE ArrayItems(_, _, _, _)
RECURSIVE ObjectItems(_, _, _, _)

\* the for loop of the TypeArray case, from element i on
ArrayItems(bb, H, a, i) ==
    IF i > Len(a) THEN <<>>
    ELSE ValueMarshalTo(bb, H, a[i])
         \o (IF i # Len(a) THEN <<Ch.comma>> ELSE <<>>)
         \o ArrayItems(bb, H, a, i + 1)

\* the for loop of Object.MarshalTo, from entry i on
ObjectItems(bb, H, o, i) ==
    IF i > Len(o.kvs) THEN <<>>
    ELSE (IF o.ku THEN escapeString(Bytes(bb, o.kvs[i].k))
          ELSE RawQuoted(bb, o.kvs[i].k))
         \o <<Ch.colon>>
         \o ValueMarshalTo(bb, H, o.kvs[i].v)
         \o (IF i # Len(o.kvs) THEN <<Ch.comma>> ELSE <<>>)
         \o ObjectItems(bb, H, o, i + 1)

\* Object.MarshalTo(nil)
ObjectMarshalTo(bb, H, o) == <<Ch.lbrace>> \o ObjectItems(bb, H, o, 1) \o <<Ch.rbrace>>

\* Value.MarshalTo(nil) of the value at p
ValueMarshalTo(bb, H, p) ==
    IF p = NIL THEN Panic
    ELSE LET val == H.mem[p]
         IN IF val.t = typeRawString
            THEN RawQuoted(bb, val.s)
            ELSE IF val.t = TypeObject THEN ObjectMarshalTo(bb, H, val)
            ELSE IF val.t = TypeArray
            THEN <<Ch.lbrack>> \o ArrayItems(bb, H, val.a, 1) \o <<Ch.rbrack>>
            ELSE IF val.t = TypeString THEN escapeString(Bytes(bb, val.s))
            ELSE IF val.t = TypeNumber THEN Bytes(bb, val.s)
            ELSE IF val.t = TypeTrue THEN LitTrue
            ELSE IF val.t = TypeFalse THEN LitFalse
            ELSE IF val.t = TypeNull THEN LitNull
            ELSE Panic

-----------------------------------------------------------------------------
(* Accessors.  Each returns the buffer and the heap it leaves, and its      *)
(* result.                                                                 *)

\* Value.Type upgrading every value that is not a container, a number or a
\* string, the literals included
TypeUpgradesLiterals(bb, H, p) ==
    IF H.mem[p].t \notin {TypeObject, TypeArray, TypeNumber, TypeString}
    THEN With(unescapeStringBestEffort(bb, H.mem[p].s), LAMBDA u :
            [b |-> u.b,
             H |-> Store(H, p, [H.mem[p] EXCEPT !.s = u.s, !.t = TypeString]),
             t |-> TypeString])
    ELSE [b |-> bb, H |-> H, t |-> H.mem[p].t]

\* Value.Type
Type(bb, H, p) ==
    IF H.mem[p].t = typeRawString
    THEN With(unescapeStringBestEffort(bb, H.mem[p].s), LAMBDA u :
            [b |-> u.b,
             H |-> Store(H, p, [H.mem[p] EXCEPT !.s = u.s, !.t = TypeString]),
             t |-> TypeString])
    ELSE [b |-> bb, H |-> H, t |-> H.mem[p].t]

RECURSIVE unescapeKeysFrom(_, _, _, _)
\* the for loop of Object.unescapeKeys over the object struct at p, from entry i
unescapeKeysFrom(bb, H, p, i) ==
    IF i > Len(H.mem[p].kvs) THEN [b |-> bb, H |-> H]
    ELSE With(unescapeStringBestEffort(bb, H.mem[p].kvs[i].k), LAMBDA u :
            unescapeKeysFrom(u.b, Store(H, p, [H.mem[p] EXCEPT !.kvs[i].k = u.s]),
                             p, i + 1))

\* Object.unescapeKeys on the object struct at p
unescapeKeys(bb, H, p) ==
    IF H.mem[p].ku THEN [b |-> bb, H |-> H]
    ELSE With(unescapeKeysFrom(bb, H, p, 1), LAMBDA u :
            [b |-> u.b, H |-> Store(u.H, p, [u.H.mem[p] EXCEPT !.ku = TRUE])])

\* for _, kv := range o.kvs { if kv.k == key { return kv.v } }: the index of
\* the first entry whose key is key, or 0
FindKey(bb, o, key) ==
    LET hits == {i \in 1..Len(o.kvs) : Bytes(bb, o.kvs[i].k) = key}
    IN IF hits = {} THEN 0 ELSE Min(hits)

\* Object.Get(key) on the object struct at p
ObjectGet(bb, H, p, key) ==
    With(IF ~H.mem[p].ku /\ IndexByte(key, 0, Ch.bslash) < 0
         THEN FindKey(bb, H.mem[p], key) ELSE 0, LAMBDA fast :
        IF fast # 0 THEN [b |-> bb, H |-> H, v |-> H.mem[p].kvs[fast].v]
        ELSE With(unescapeKeys(bb, H, p), LAMBDA u :
             With(FindKey(u.b, u.H.mem[p], key), LAMBDA i :
                [b |-> u.b, H |-> u.H,
                 v |-> IF i # 0 THEN u.H.mem[p].kvs[i].v ELSE NIL])))

\* Object.Visit(f) on the object struct at p: the (key, value) pairs f is
\* called with, in the order of the calls
ObjectVisit(bb, H, p) ==
    With(unescapeKeys(bb, H, p), LAMBDA u :
        [b |-> u.b, H |-> u.H,
         calls |-> [i \in 1..Len(u.H.mem[p].kvs) |->
                       [key |-> Bytes(u.b, u.H.mem[p].kvs[i].k),
                        v |-> u.H.mem[p].kvs[i].v]]])

\* Object.Len
ObjectLen(H, p) == Len(H.mem[p].kvs)

RECURSIVE DecimalValue(_)
\* the number a sequence of digits denotes
DecimalValue(ds) ==
    IF ds = <<>> THEN 0
    ELSE 10 * DecimalValue(SubSeq(ds, 1, Len(ds) - 1)) + (ds[Len(ds)] - Ch.d0)

\* strconv.Atoi(key) for a key short enough not to overflow: an optional sign
\* and at least one digit, nothing else
Atoi(key) ==
    LET signed == key # <<>> /\ (key[1] = Ch.minus \/ key[1] = Ch.plus)
        ds == IF signed THEN Tail(key) ELSE key
    IN IF ds = <<>> \/ \E i \in 1..Len(ds) : ds[i] < Ch.d0 \/ ds[i] > Ch.d9
       THEN [ok |-> FALSE, n |-> 0]
       ELSE [ok |-> TRUE,
             n |-> IF signed /\ key[1] = Ch.minus THEN 0 - DecimalValue(ds)
                   ELSE DecimalValue(ds)]

RECURSIVE ValueGet(_, _, _, _)
\* Value.Get(keys...) from the value at p
ValueGet(bb, H, p, keys) ==
    IF p = NIL \/ keys = <<>> THEN [b |-> bb, H |-> H, v |-> p]
    ELSE IF H.mem[p].t = TypeObject
    THEN With(ObjectGet(bb, H, p, Head(keys)), LAMBDA g :
            IF g.v = NIL THEN g ELSE ValueGet(g.b, g.H, g.v, Tail(keys)))
    ELSE IF H.mem[p].t = TypeArray
    THEN LET n == Atoi(Head(keys))
         IN IF ~n.ok \/ n.n < 0 \/ n.n >= Len(H.mem[p].a)
            THEN [b |-> bb, H |-> H, v |-> NIL]
            ELSE ValueGet(bb, H, H.mem[p].a[n.n + 1], Tail(keys))
    ELSE [b |-> bb, H |-> H, v |-> NIL]

\* Value.GetStringBytes(keys...): nil is the mark -1
GetStringBytes(bb, H, p, keys) ==
    With(ValueGet(bb, H, p, keys), LAMBDA g :
        IF g.v = NIL THEN [b |-> g.b, H |-> g.H, s |-> Panic]
        ELSE With(Type(g.b, g.H, g.v), LAMBDA ty :
                IF ty.t # TypeString THEN [b |-> ty.b, H |-> ty.H, s |-> Panic]
                ELSE [b |-> ty.b, H |-> ty.H, s |-> Bytes(ty.b, ty.H.mem[g.v].s)]))

\* Value.GetBool(keys...)
GetBool(bb, H, p, keys) ==
    With(ValueGet(bb, H, p, keys), LAMBDA g :
        [b |-> g.b, H |-> g.H, r |-> g.v # NIL /\ g.H.mem[g.v].t = TypeTrue])

-----------------------------------------------------------------------------
(* Mutators *)

\* append(kvs[:i], kvs[i+1:]...) with i counted from 1
RemoveAt(s, i) == SubSeq(s, 1, i - 1) \o SubSeq(s, i + 1, Len(s))

\* Object.Set that never looks for the key and always takes a new slot
ObjectSetAppends(bb, H, p, key, value) ==
    IF p = NIL THEN [b |-> bb, H |-> H]
    ELSE With(unescapeKeys(bb, H, p), LAMBDA u :
            [b |-> u.b,
             H |-> Store(u.H, p,
                       [u.H.mem[p] EXCEPT
                           !.kvs = Append(@, [k |-> LitStr(key),
                                              v |-> IF value = NIL THEN valueNull
                                                    ELSE value])])])

\* Object.Set(key, value) on the object struct at p
ObjectSet(bb, H, p, key, value) ==
    IF p = NIL THEN [b |-> bb, H |-> H]
    ELSE LET val == IF value = NIL THEN valueNull ELSE value
         IN With(unescapeKeys(bb, H, p), LAMBDA u :
            With(FindKey(u.b, u.H.mem[p], key), LAMBDA i :
                IF i # 0
                THEN [b |-> u.b,
                      H |-> Store(u.H, p, [u.H.mem[p] EXCEPT !.kvs[i].v = val])]
                ELSE [b |-> u.b,
                      H |-> Store(u.H, p,
                                [u.H.mem[p] EXCEPT
                                    !.kvs = Append(@, [k |-> LitStr(key), v |-> val])])]))

\* the entries of kvs whose key is not key, in their order
WithoutKey(bb, kvs, key) ==
    With({i \in 1..Len(kvs) : Bytes(bb, kvs[i].k) # key}, LAMBDA keep :
        [n \in 1..Cardinality(keep) |->
            kvs[CHOOSE i \in keep : Cardinality({j \in keep : j <= i}) = n]])

\* Object.Del that removes every entry with the key
ObjectDelAll(bb, H, p, key) ==
    IF p = NIL THEN [b |-> bb, H |-> H]
    ELSE With(unescapeKeys(bb, H, p), LAMBDA u :
            [b |-> u.b,
             H |-> Store(u.H, p, [u.H.mem[p] EXCEPT
                                     !.kvs = WithoutKey(u.b, @, key)])])

\* Object.Del(key) on the object struct at p
ObjectDel(bb, H, p, key) ==
    IF p = NIL THEN [b |-> bb, H |-> H]
    ELSE With(IF ~H.mem[p].ku /\ IndexByte(key, 0, Ch.bslash) < 0
              THEN FindKey(bb, H.mem[p], key) ELSE 0, LAMBDA fast :
         IF fast # 0
         THEN [b |-> bb, H |-> Store(H, p, [H.mem[p] EXCEPT !.kvs = RemoveAt(@, fast)])]
         ELSE With(unescapeKeys(bb, H, p), LAMBDA u :
              With(FindKey(u.b, u.H.mem[p], key), LAMBDA i :
                 IF i # 0
                 THEN [b |-> u.b,
                       H |-> Store(u.H, p, [u.H.mem[p] EXCEPT !.kvs = RemoveAt(@, i)])]
                 ELSE u)))

\* Value.Del(key) on the value at p
ValueDel(bb, H, p, key) ==
    IF p = NIL THEN [b |-> bb, H |-> H]
    ELSE IF H.mem[p].t = TypeObject THEN ObjectDel(bb, H, p, key)
    ELSE IF H.mem[p].t = TypeArray
    THEN LET n == Atoi(key)
         IN IF ~n.ok \/ n.n < 0 \/ n.n >= Len(H.mem[p].a) THEN [b |-> bb, H |-> H]
            ELSE [b |-> bb, H |-> Store(H, p, [H.mem[p] EXCEPT !.a = RemoveAt(@, n.n + 1)])]
    ELSE [b |-> bb, H |-> H]

\* Value.SetArrayItem that fills the gap with the value instead of null
SetArrayItemFillsValue(H, p, idx, value) ==
    IF p = NIL \/ H.mem[p].t # TypeArray THEN H
    ELSE Store(H, p, [H.mem[p] EXCEPT
                         !.a = [i \in 1..Max({Len(@), idx + 1}) |->
                                   IF i <= Len(@) /\ i # idx + 1 THEN @[i] ELSE value]])

\* Value.SetArrayItem(idx, value) on the value at p, for idx >= 0
SetArrayItem(H, p, idx, value) ==
    IF p = NIL \/ H.mem[p].t # TypeArray THEN H
    ELSE LET a == H.mem[p].a
             grown == [i \in 1..Max({Len(a), idx + 1}) |->
                          IF i <= Len(a) THEN a[i] ELSE valueNull]
         IN Store(H, p, [H.mem[p] EXCEPT !.a = [grown EXCEPT ![idx + 1] = value]])

\* Value.Set(key, value) on the value at p
ValueSet(bb, H, p, key, value) ==
    IF p = NIL THEN [b |-> bb, H |-> H]
    ELSE IF H.mem[p].t = TypeObject THEN ObjectSet(bb, H, p, key, value)
    ELSE IF H.mem[p].t = TypeArray
    THEN LET n == Atoi(key)
         IN IF ~n.ok \/ n.n < 0 THEN [b |-> bb, H |-> H]
            ELSE [b |-> bb, H |-> SetArrayItem(H, p, n.n, value)]
    ELSE [b |-> bb, H |-> H]

-----------------------------------------------------------------------------
(* What a caller can read of a value without changing it: the tag, the      *)
(* payload bytes of a number or a string, the elements of an array and the  *)
(* entries of an object, as a tree.  fuel bounds the descent (a tree built  *)
(* by Set may hold a value twice).                                          *)

NilTree == [t |-> -1, s |-> <<>>, a |-> <<>>, kvs |-> <<>>, ku |-> FALSE]

RECURSIVE Tree(_, _, _, _)
Tree(bb, H, p, fuel) ==
    IF p = NIL \/ fuel = 0 THEN NilTree
    ELSE LET val == H.mem[p]
         IN [t |-> val.t,
             s |-> IF val.t \in {TypeNumber, TypeString, typeRawString}
                   THEN Bytes(bb, val.s) ELSE <<>>,
             a |-> IF val.t = TypeArray
                   THEN [i \in 1..Len(val.a) |-> Tree(bb, H, val.a[i], fuel - 1)]
                   ELSE <<>>,
             kvs |-> IF val.t = TypeObject
                     THEN [i \in 1..Len(val.kvs) |->
                              [k |-> Bytes(bb, val.kvs[i].k),
                               v |-> Tree(bb, H, val.kvs[i].v, fuel - 1)]]
                     ELSE <<>>,
             ku |-> val.t = TypeObject /\ val.ku]

-----------------------------------------------------------------------------
(* The Scanner: sc = [b, pos, err, v, H], H the heap behind sc.c            *)

errEOF == <<"end of s">>

\* Scanner.Init(s) and Scanner.InitBytes(b)
ScannerInit(sc, s) == [sc EXCEPT !.b = s, !.pos = 0, !.err = <<>>, !.v = NIL]

\* Scanner.Next without the check of sc.err at its head
ScannerNextNotSticky(sc) ==
    LET p == skipWS(sc.b, sc.pos)
    IN IF Len(sc.b) - p = 0
       THEN [sc |-> [sc EXCEPT !.pos = p, !.err = errEOF], ret |-> FALSE]
       ELSE With(parseValue(sc.b, p, reset(sc.H), 0), LAMBDA r :
               IF r.err # <<>>
               THEN [sc |-> [sc EXCEPT !.pos = p, !.H = r.H, !.err = r.err],
                     ret |-> FALSE]
               ELSE [sc |-> [sc EXCEPT !.pos = r.tail, !.H = r.H, !.v = r.v],
                     ret |-> TRUE])

\* Scanner.Next with sc.v = v moved above the check of err
ScannerNextStoresFirst(sc) ==
    IF sc.err # <<>> THEN [sc |-> sc, ret |-> FALSE]
    ELSE LET p == skipWS(sc.b, sc.pos)
         IN IF Len(sc.b) - p = 0
            THEN [sc |-> [sc EXCEPT !.pos = p, !.err = errEOF], ret |-> FALSE]
            ELSE With(parseValue(sc.b, p, reset(sc.H), 0), LAMBDA r :
                    IF r.err # <<>>
                    THEN [sc |-> [sc EXCEPT !.pos = p, !.H = r.H, !.err = r.err,
                                            !.v = r.v],
                          ret |-> FALSE]
                    ELSE [sc |-> [sc EXCEPT !.pos = r.tail, !.H = r.H, !.v = r.v],
                          ret |-> TRUE])

\* Scanner.Next: the scanner afterwards and the result
ScannerNext(sc) ==
    IF sc.err # <<>> THEN [sc |-> sc, ret |-> FALSE]
    ELSE LET p == skipWS(sc.b, sc.pos)
         IN IF Len(sc.b) - p = 0
            THEN [sc |-> [sc EXCEPT !.pos = p, !.err = errEOF], ret |-> FALSE]
            ELSE With(parseValue(sc.b, p, reset(sc.H), 0), LAMBDA r :
                    IF r.err # <<>>
                    THEN [sc |-> [sc EXCEPT !.pos = p, !.H = r.H, !.err = r.err],
                          ret |-> FALSE]
                    ELSE [sc |-> [sc EXCEPT !.pos = r.tail, !.H = r.H, !.v = r.v],
                          ret |-> TRUE])

\* Scanner.Error
ScannerError(sc) == IF sc.err = errEOF THEN <<>> ELSE sc.err

\* Scanner.Value
ScannerValue(sc) == sc.v

\* the scanner the variables hold
Sc == [b |-> b, pos |-> pos, err |-> err, v |-> v, H |-> heap]

\* a Scanner as declared: var sc Scanner
NewScanner == [b |-> <<>>, pos |-> 0, err |-> <<>>, v |-> NIL, H |-> EmptyHeap]

-----------------------------------------------------------------------------
(* The scanner's caller.  It initialises the scanner with a list of chunks  *)
(* joined by whitespace and calls Next; hist holds what it knows: the       *)
(* chunks, the number of Next calls since Init and how many returned false, *)
(* the value and the tree it saw after the last Next that returned true,    *)
(* the number of Init calls, and whether the last Init came after a parse   *)
(* failure and a second Next that returned false.                           *)

MaxChunks == 2
MaxInits == 2
TreeFuel == 4

ScanAlphabet == {Ch.lbrack, Ch.rbrack, Ch.d1, Ch.minus, Ch.quote}

ChunkPool ==
    {<<x>> : x \in ScanAlphabet} \cup {<<x, y>> : x, y \in ScanAlphabet}
    \cup {<<Ch.lbrack, Ch.d1, Ch.rbrack>>, <<Ch.quote, Ch.d1, Ch.quote>>}

ReinitPool ==
    {<<Ch.d1>>, <<Ch.minus>>, <<Ch.lbrack, Ch.d1>>,
     <<Ch.lbrack, Ch.d1, Ch.rbrack>>, <<Ch.quote, Ch.d1, Ch.quote>>}

\* what a used scanner is initialised with again
RescanLists ==
    {<<<<Ch.lbrack, Ch.d1>>>>, <<<<Ch.lbrack, Ch.rbrack>>, <<Ch.d1>>>>}

SepPool == {<<Ch.sp>>, <<Ch.lf, Ch.tab>>}

ChunkLists(pool) == UNION {[1..n -> pool] : n \in 1..MaxChunks}

RECURSIVE Join(_, _)
Join(chunks, sep) ==
    IF Len(chunks) = 1 THEN chunks[1]
    ELSE chunks[1] \o sep \o Join(Tail(chunks), sep)

\* the caller's sc.Init(Join(chunks, sep))
CallInit(chunks, sep) ==
    LET sc == ScannerInit(Sc, Join(chunks, sep))
    IN /\ b' = sc.b /\ pos' = sc.pos /\ err' = sc.err /\ v' = sc.v
       /\ heap' = sc.H /\ stack' = stack
       /\ last' = [op |-> "Init", ret |-> TRUE]
       /\ hist' = [chunks |-> chunks, calls |-> 0, falses |-> 0,
                   okRef |-> NIL, okTree |-> NilTree,
                   inits |-> hist.inits + 1,
                   afterSticky |-> hist.falses >= 2 /\ err # <<>> /\ err # errEOF]

\* the first Init of a new scanner
ScInit ==
    /\ last.op = "new"
    /\ \E sep \in SepPool : \E chunks \in ChunkLists(ChunkPool) : CallInit(chunks, sep)

\* Init of a new scanner, and again at any time on the used scanner, up to
\* MaxInits times in all
ScReinit ==
    /\ hist.inits < MaxInits
    /\ \/ /\ last.op = "new"
          /\ \E sep \in SepPool : \E chunks \in ChunkLists(ReinitPool) :
                 CallInit(chunks, sep)
       \/ /\ last.op # "new"
          /\ \E chunks \in RescanLists : CallInit(chunks, <<Ch.sp>>)

ScNext ==
    /\ last.op # "new"
    /\ hist.calls < Len(hist.chunks) + 2
    /\ \E n \in {ScannerNext(Sc)} :
          /\ b' = n.sc.b /\ pos' = n.sc.pos /\ err' = n.sc.err /\ v' = n.sc.v
          /\ heap' = n.sc.H /\ stack' = stack
          /\ last' = [op |-> "Next", ret |-> n.ret]
          /\ hist' = [hist EXCEPT
                 !.calls = @ + 1,
                 !.falses = IF n.ret THEN @ ELSE @ + 1,
                 !.okRef = IF n.ret THEN n.sc.v ELSE @,
                 !.okTree = IF n.ret THEN Tree(n.sc.b, n.sc.H, n.sc.v, TreeFuel) ELSE @]

InitScanner ==
    /\ b = NewScanner.b /\ pos = NewScanner.pos /\ err = NewScanner.err
    /\ v = NewScanner.v /\ heap = NewScanner.H /\ stack = <<>>
    /\ last = [op |-> "new", ret |-> TRUE]
    /\ hist = [chunks |-> <<>>, calls |-> 0, falses |-> 0, okRef |-> NIL,
               okTree |-> NilTree, inits |-> 0, afterSticky |-> FALSE]

NextScanner == ScInit \/ ScNext

SpecScanner == InitScanner /\ [][NextScanner]_vars

NextRescan == ScReinit \/ ScNext

SpecRescan == InitScanner /\ [][NextRescan]_vars

-----------------------------------------------------------------------------
(* The recursive descent step by step, for inputs nested as deep as         *)
(* MaxDepth.  stack holds one frame per call of parseArray or parseObject   *)
(* in progress: the node and whether it is an object.  last.op says where   *)
(* the run stands: "value" before a call of parseValue on b[pos:], "ret"    *)
(* after a call of parseValue returned v and b[pos:], "unwind" after one    *)
(* returned err, "done" after Parse or Next returned.  hist holds the       *)
(* input's shape and the deepest level at which parseValue went on past     *)
(* its depth check.                                                         *)

Margin == 1

DepthPool == (MaxDepth - Margin)..(MaxDepth + Margin)

\* what the innermost container holds: nothing or a scalar
MidPool == {<<>>, <<Ch.d1>>, LitTrue, <<Ch.quote, Ch.quote>>}

NestOpen(obj) ==
    IF obj THEN <<Ch.lbrace, Ch.quote, Ch.k, Ch.quote, Ch.colon>> ELSE <<Ch.lbrack>>

NestClose(obj) == IF obj THEN <<Ch.rbrace>> ELSE <<Ch.rbrack>>

\* n copies of x
Rep(x, n) == [i \in 1..(n * Len(x)) |-> x[((i - 1) % Len(x)) + 1]]

\* k containers, one inside the other, the innermost holding mid
Nested(obj, k, mid) ==
    Rep(NestOpen(obj), k - 1)
    \o (IF obj THEN <<Ch.lbrace>> ELSE <<Ch.lbrack>>)
    \o (IF obj /\ mid # <<>> THEN <<Ch.quote, Ch.k, Ch.quote, Ch.colon>> ELSE <<>>)
    \o mid \o Rep(NestClose(obj), k)

Frame(node, obj) == [node |-> node, obj |-> obj]
Top == stack[Len(stack)]
Pop == SubSeq(stack, 1, Len(stack) - 1)

\* the state after a call of parseValue returned r
Returned(r, stk) ==
    /\ heap' = r.H /\ pos' = r.tail /\ stack' = stk
    /\ v' = r.v /\ err' = r.err
    /\ last' = [op |-> IF r.err # <<>> THEN "unwind" ELSE "ret", ret |-> TRUE]

\* the state before the call of parseValue on b[p:] with the heap H
Calling(p, H, stk) ==
    /\ heap' = H /\ pos' = p /\ stack' = stk
    /\ v' = v /\ err' = err
    /\ last' = [op |-> "value", ret |-> TRUE]

\* Parser.Parse(s) or Scanner.Init(s) and Scanner.Next(), up to the call of
\* parseValue (the input holds a value, so Next does not return at the end of
\* the input)
DStart ==
    /\ last.op = "new"
    /\ \E api \in {"Parse", "Next"} : \E obj \in BOOLEAN :
       \E k \in DepthPool : \E mid \in MidPool :
          \E s \in {<<Ch.sp>> \o Nested(obj, k, mid) \o <<Ch.lf>>} :
          /\ b' = IF api = "Parse" THEN Drop(s, skipWS(s, 0)) ELSE s
          /\ Calling(IF api = "Parse" THEN 0 ELSE skipWS(s, 0), reset(heap), <<>>)
          /\ hist' = [api |-> api, obj |-> obj, k |-> k, mid |-> mid,
                      levels |-> IF mid = <<>> THEN k ELSE k + 1,
                      start |-> IF api = "Parse" THEN 0 ELSE skipWS(s, 0),
                      deepest |-> 0]

\* parseValue(b[pos:], c, depth) is called with depth = len(stack): it
\* returns at once, or goes on into parseArray or parseObject up to the call
\* of parseValue for the first element
DValue ==
    /\ last.op = "value"
    /\ b' = b
    /\ hist' = [hist EXCEPT !.deepest =
                   IF Len(b) - pos > 0 /\ ~TooDeep(Len(stack))
                   THEN Max({@, Len(stack) + 1}) ELSE @]
    /\ IF Len(b) - pos = 0 \/ TooDeep(Len(stack))
          \/ b[pos + 1] \notin {Ch.lbrack, Ch.lbrace}
       THEN Returned(parseValue(b, pos, heap, Len(stack)), stack)
       ELSE \E p \in {skipWS(b, pos + 1)} :
            IF b[pos + 1] = Ch.lbrack
            THEN IF Len(b) - p = 0
                 THEN Returned(WrapErr(Fail(<<"missing ']'">>, p, heap),
                                       "cannot parse array"), stack)
                 ELSE \E g \in {NewArray(heap)} :
                      IF b[p + 1] = Ch.rbrack
                      THEN Returned(Done(g.v, p + 1, g.H), stack)
                      ELSE Calling(skipWS(b, p), g.H,
                                   Append(stack, Frame(g.v, FALSE)))
            ELSE IF Len(b) - p = 0
                 THEN Returned(WrapErr(Fail(<<"missing '}'">>, p, heap),
                                       "cannot parse object"), stack)
                 ELSE \E g \in {NewObject(heap)} :
                      IF b[p + 1] = Ch.rbrace
                      THEN Returned(Done(g.v, p + 1, g.H), stack)
                      ELSE \E kt \in {parseObjectTurn(b, p, g.H, g.v)} :
                           IF kt.err # <<>>
                           THEN Returned(WrapErr(kt, "cannot parse object"), stack)
                           ELSE Calling(kt.tail, kt.H,
                                        Append(stack, Frame(g.v, TRUE)))

\* parseValue returned v and b[pos:] to its caller: Parse, Next, or the loop
\* of the parseArray or parseObject on top of the stack
DReturn ==
    /\ last.op = "ret"
    /\ b' = b /\ hist' = hist
    /\ IF stack = <<>>
       THEN /\ heap' = heap /\ stack' = stack
            /\ IF hist.api = "Parse"
               THEN \E q \in {skipWS(b, pos)} :
                    /\ pos' = q
                    /\ IF Len(b) - q > 0
                       THEN /\ v' = NIL /\ err' = <<"unexpected tail">>
                            /\ last' = [op |-> "done", ret |-> FALSE]
                       ELSE /\ v' = v /\ err' = err
                            /\ last' = [op |-> "done", ret |-> TRUE]
               ELSE /\ pos' = pos /\ v' = v /\ err' = err
                    /\ last' = [op |-> "done", ret |-> TRUE]
       ELSE IF ~Top.obj
       THEN \E H1 \in {arrayAppend(heap, Top.node, v)} :
            \E q \in {skipWS(b, pos)} :
               IF Len(b) - q = 0
               THEN Returned(WrapErr(Fail(<<"unexpected end of array">>, q, H1),
                                     "cannot parse array"), Pop)
               ELSE IF b[q + 1] = Ch.comma
               THEN Calling(skipWS(b, q + 1), H1, stack)
               ELSE IF b[q + 1] = Ch.rbrack
               THEN Returned(Done(Top.node, q + 1, H1), Pop)
               ELSE Returned(WrapErr(Fail(<<"missing ',' after array value">>, q, H1),
                                     "cannot parse array"), Pop)
       ELSE \E H2 \in {kvStore(heap, Top.node, v)} :
            \E q2 \in {skipWS(b, pos)} :
               IF Len(b) - q2 = 0
               THEN Returned(WrapErr(Fail(<<"unexpected end of object">>, q2, H2),
                                     "cannot parse object"), Pop)
               ELSE IF b[q2 + 1] = Ch.comma
               THEN \E kt \in {parseObjectTurn(b, q2 + 1, H2, Top.node)} :
                       IF kt.err # <<>>
                       THEN Returned(WrapErr(kt, "cannot parse object"), Pop)
                       ELSE Calling(kt.tail, kt.H, stack)
               ELSE IF b[q2 + 1] = Ch.rbrace
               THEN Returned(Done(Top.node, q2 + 1, H2), Pop)
               ELSE Returned(WrapErr(Fail(<<"missing ',' after object value">>, q2, H2),
                                     "cannot parse object"), Pop)

\* parseValue returned err to its caller
DUnwind ==
    /\ last.op = "unwind"
    /\ b' = b /\ hist' = hist
    /\ IF stack = <<>>
       THEN /\ heap' = heap /\ stack' = stack /\ v' = NIL
            /\ pos' = IF hist.api = "Parse" THEN pos ELSE hist.start
            /\ err' = IF hist.api = "Parse" THEN Wrap("cannot parse JSON", err) ELSE err
            /\ last' = [op |-> "done", ret |-> FALSE]
       ELSE Returned(WrapErr(Fail(Wrap(IF Top.obj THEN "cannot parse object value"
                                       ELSE "cannot parse array value", err),
                                  pos, heap),
                             IF Top.obj THEN "cannot parse object"
                             ELSE "cannot parse array"), Pop)

InitDepth ==
    /\ b = <<>> /\ heap = EmptyHeap /\ v = NIL /\ err = <<>> /\ pos = 0
    /\ stack = <<>>
    /\ last = [op |-> "new", ret |-> TRUE]
    /\ hist = [api |-> "", obj |-> FALSE, k |-> 0, mid |-> <<>>, levels |-> 0,
               start |-> 0,
               deepest |-> 0]

NextDepth == DStart \/ DValue \/ DReturn \/ DUnwind

SpecDepth == InitDepth /\ [][NextDepth]_vars

-----------------------------------------------------------------------------
(* The parser's caller.  It parses an input, marshals the tree it got       *)
(* without touching it, parses the output again and marshals that.  hist    *)
(* holds the input of the last Parse, the outputs of MarshalTo since the    *)
(* caller's own input was parsed, and the number of inputs parsed.          *)

MaxLen == 4
MaxParses == 2

FuzzAlphabet ==
    {Ch.sp, Ch.lf, Ch.vt, Ch.d1, Ch.lbrack, Ch.rbrack, Ch.quote, Ch.comma}

FuzzPool == UNION {[1..n -> FuzzAlphabet] : n \in 0..MaxLen}

\* documents as lists of tokens
\* { "a" : 1 , "b\"" : [ true , "x\n y" , null ] }
Doc1 == <<<<123>>, <<34, 97, 34>>, <<58>>, <<49>>, <<44>>, <<34, 98, 92, 34,
    34>>, <<58>>, <<91>>, <<116, 114, 117, 101>>, <<44>>, <<34, 120, 92, 110,
    32, 121, 34>>, <<44>>, <<110, 117, 108, 108>>, <<93>>, <<125>>>>

\* [ -1.5e3 , { } , [ ] , false ]
Doc2 == <<<<91>>, <<45, 49, 46, 53, 101, 51>>, <<44>>, <<123>>, <<125>>,
    <<44>>, <<91>>, <<93>>, <<44>>, <<102, 97, 108, 115, 101>>, <<93>>>>

\* "\u0041\/ "
Doc3 == <<<<34, 92, 117, 48, 48, 52, 49, 92, 47, 32, 34>>>>

\* { "k" : "v" , "k" : 2 }
Doc4 == <<<<123>>, <<34, 107, 34>>, <<58>>, <<34, 118, 34>>, <<44>>, <<34,
    107, 34>>, <<58>>, <<50>>, <<125>>>>

\* [ 1 , ]
Doc5 == <<<<91>>, <<49>>, <<44>>, <<93>>>>

\* { "a" 1 }
Doc6 == <<<<123>>, <<34, 97, 34>>, <<49>>, <<125>>>>

\* -
Doc7 == <<<<45>>>>

DocPool == {Doc1, Doc2, Doc3, Doc4, Doc5, Doc6, Doc7}

FillPool == {<<>>, <<Ch.sp>>, <<Ch.lf, Ch.tab, Ch.cr>>}

RECURSIVE Spread(_, _)
\* the tokens with the filler w before, between and after them
Spread(tokens, w) ==
    IF tokens = <<>> THEN w ELSE w \o Head(tokens) \o Spread(Tail(tokens), w)

ParsePool == FuzzPool \cup {Spread(d, w) : d \in DocPool, w \in FillPool}

\* what a used parser is given next
ParseAgainPool == {Spread(Doc4, <<Ch.sp>>), Spread(Doc5, <<>>), <<Ch.d1>>}

\* the caller's p.Parse(s)
CallParse(s, outs, parses) ==
    \E r \in {Parse(s, heap)} :
       /\ b' = r.b /\ heap' = r.H /\ v' = r.v /\ err' = r.err
       /\ pos' = pos /\ stack' = stack
       /\ last' = [op |-> "Parse", ret |-> r.err = <<>>]
       /\ hist' = [input |-> s, outs |-> outs, parses |-> parses]

\* Parse of a new input: any input on a new parser, one of a few on a used one
PParse ==
    /\ hist.parses < MaxParses
    /\ \E s \in IF hist.parses = 0 THEN ParsePool ELSE ParseAgainPool :
          CallParse(s, <<>>, hist.parses + 1)

\* v.MarshalTo(nil) on the value the last Parse returned
PMarshal ==
    /\ last.op = "Parse" /\ err = <<>>
    /\ last' = [op |-> "MarshalTo", ret |-> TRUE]
    /\ hist' = [hist EXCEPT !.outs = Append(@, ValueMarshalTo(b, heap, v))]
    /\ UNCHANGED <<b, heap, v, err, pos, stack>>

\* Parse of what MarshalTo wrote
PReparse ==
    /\ last.op = "MarshalTo" /\ Len(hist.outs) = 1
    /\ CallParse(hist.outs[1], hist.outs, hist.parses)

InitParse ==
    /\ b = <<>> /\ heap = EmptyHeap /\ v = NIL /\ err = <<>> /\ pos = 0
    /\ stack = <<>>
    /\ last = [op |-> "new", ret |-> TRUE]
    /\ hist = [input |-> <<>>, outs |-> <<>>, parses |-> 0]

NextParse == PParse \/ PMarshal \/ PReparse

SpecParse == InitParse /\ [][NextParse]_vars

-----------------------------------------------------------------------------
(* The caller of the accessors.  It parses one document, then calls read    *)
(* accessors and Object.Set on the values it holds: the root and whatever   *)
(* Get and Visit handed out.  hist holds the input, the values held, the    *)
(* first result of every read call since the parse or the last Set or Del, *)
(* and the numbers of calls and of Sets and Dels.                           *)

MaxCalls == 3

\* {"\/":1,"/":2}
TDoc1 == <<123, 34, 92, 47, 34, 58, 49, 44, 34, 47, 34, 58, 50, 125>>

\* {"k":"\u0001","k":"a\"b"}
TDoc2 == <<123, 34, 107, 34, 58, 34, 92, 117, 48, 48, 48, 49, 34, 44, 34, 107,
    34, 58, 34, 97, 92, 34, 98, 34, 125>>

\* ["A",{"\/":true}]
TDoc3 == <<91, 34, 92, 117, 48, 48, 52, 49, 34, 44, 123, 34, 92, 47, 34, 58,
    116, 114, 117, 101, 125, 93>>

\* "x" with the byte 0x01 after the x
TDoc4 == <<34, 120, 1, 34>>

TreePool == {TDoc1, TDoc2, TDoc3, TDoc4}

\* the keys "/", "k", "0" and "\/" (a backslash and a slash)
KeyPool == {<<Ch.slash>>, <<Ch.k>>, <<Ch.d0>>, <<Ch.bslash, Ch.slash>>}

\* what the caller remembers of a read call: whether it was made and what
\* it returned the first time
NotSeen(zero) == [seen |-> FALSE, res |-> zero]
FirstOf(old, now) == IF old.seen THEN old.res ELSE now
Remember(old, now) == IF old.seen THEN old ELSE [seen |-> TRUE, res |-> now]

NoFirst(H) ==
    [get |-> [p \in 1..Len(H.mem) |-> [k \in KeyPool |-> NotSeen(NIL)]],
     type |-> [p \in 1..Len(H.mem) |-> NotSeen(TypeNull)],
     str |-> [p \in 1..Len(H.mem) |-> NotSeen(<<>>)],
     visit |-> [p \in 1..Len(H.mem) |-> NotSeen(<<>>)],
     marshal |-> NotSeen(<<>>)]

\* the string a key or a string value denotes
LogicalBytes(bb, s, unescaped) ==
    IF unescaped THEN Bytes(bb, s)
    ELSE With(unescapeStringBestEffort(bb, s), LAMBDA u : Bytes(u.b, u.s))

\* the entries of the object struct at p: the string each key denotes and
\* the value
LogicalEntries(bb, H, p) ==
    [i \in 1..Len(H.mem[p].kvs) |->
        [key |-> LogicalBytes(bb, H.mem[p].kvs[i].k, H.mem[p].ku),
         v |-> H.mem[p].kvs[i].v]]

IsObject(H, p) == p # NIL /\ H.mem[p].t = TypeObject

\* the state a read accessor leaves
AfterRead(bb, H, held, first) ==
    /\ b' = bb /\ heap' = H
    /\ hist' = [hist EXCEPT !.held = held, !.first = first, !.calls = @ + 1]
    /\ UNCHANGED <<v, err, pos, stack>>

\* p.Parse(s) on a new parser
TParse ==
    /\ last.op = "new"
    /\ \E s \in TreePool :
       \E r \in {Parse(s, heap)} :
          /\ b' = r.b /\ heap' = r.H /\ v' = r.v /\ err' = r.err
          /\ last' = [op |-> "Parse", ret |-> r.err = <<>>]
          /\ hist' = [input |-> s, held |-> {r.v} \ {NIL}, first |-> NoFirst(r.H),
                      calls |-> 0, sets |-> 0]
          /\ UNCHANGED <<pos, stack>>

\* p.Get(key) on a value held
TGet ==
    /\ hist.calls < MaxCalls
    /\ \E p \in hist.held, key \in KeyPool :
       \E g \in {ValueGet(b, heap, p, <<key>>)} :
       \E old \in {hist.first.get[p][key]} :
          /\ last' = [op |-> "Get", p |-> p, key |-> key, res |-> g.v,
                      obj |-> IsObject(heap, p),
                      first |-> FirstOf(old, g.v),
                      entries |-> IF IsObject(heap, p)
                                  THEN LogicalEntries(b, heap, p) ELSE <<>>]
          /\ AfterRead(g.b, g.H, hist.held \cup ({g.v} \ {NIL}),
                       [hist.first EXCEPT !.get[p][key] = Remember(old, g.v)])

\* p.Type() on a value held
TType ==
    /\ hist.calls < MaxCalls
    /\ \E p \in hist.held :
       \E ty \in {Type(b, heap, p)} :
       \E old \in {hist.first.type[p]} :
          /\ last' = [op |-> "Type", p |-> p, res |-> ty.t,
                      first |-> FirstOf(old, ty.t)]
          /\ AfterRead(ty.b, ty.H, hist.held,
                       [hist.first EXCEPT !.type[p] = Remember(old, ty.t)])

\* p.GetStringBytes() on a value held
TStringBytes ==
    /\ hist.calls < MaxCalls
    /\ \E p \in hist.held :
       \E g \in {GetStringBytes(b, heap, p, <<>>)} :
       \E old \in {hist.first.str[p]} :
          /\ last' = [op |-> "GetStringBytes", p |-> p, res |-> g.s,
                      first |-> FirstOf(old, g.s)]
          /\ AfterRead(g.b, g.H, hist.held,
                       [hist.first EXCEPT !.str[p] = Remember(old, g.s)])

\* o.Visit(f) on an object held, f keeping what it is given
TVisit ==
    /\ hist.calls < MaxCalls
    /\ \E p \in {q \in hist.held : IsObject(heap, q)} :
       \E vis \in {ObjectVisit(b, heap, p)} :
       \E old \in {hist.first.visit[p]} :
          /\ last' = [op |-> "Visit", p |-> p, res |-> vis.calls,
                      first |-> FirstOf(old, vis.calls),
                      entries |-> LogicalEntries(b, heap, p)]
          /\ AfterRead(vis.b, vis.H,
                       hist.held \cup {vis.calls[i].v : i \in 1..Len(vis.calls)},
                       [hist.first EXCEPT !.visit[p] = Remember(old, vis.calls)])

\* v.MarshalTo(nil) on the root
TMarshal ==
    /\ hist.calls < MaxCalls /\ v # NIL
    /\ \E out \in {ValueMarshalTo(b, heap, v)} :
       \E old \in {hist.first.marshal} :
          /\ last' = [op |-> "MarshalTo", p |-> v, res |-> out,
                      first |-> FirstOf(old, out)]
          /\ AfterRead(b, heap, hist.held,
                       [hist.first EXCEPT !.marshal = Remember(old, out)])

\* the values the caller gives to Set: nil, the singletons, the scalars held
SetValues == {NIL, valueTrue, valueNull}
                 \cup {q \in hist.held : heap.mem[q].t \notin {TypeObject, TypeArray}}

\* o.Set(key, value) on an object held
TSet ==
    /\ hist.calls < MaxCalls
    /\ \E p \in {q \in hist.held : IsObject(heap, q)}, key \in KeyPool,
          value \in SetValues :
       \E r \in {ObjectSet(b, heap, p, key, value)} :
          /\ b' = r.b /\ heap' = r.H
          /\ last' = [op |-> "Set", p |-> p, key |-> key, value |-> value,
                      ku |-> heap.mem[p].ku, len |-> Len(heap.mem[p].kvs),
                      entries |-> LogicalEntries(b, heap, p)]
          /\ hist' = [hist EXCEPT !.first = NoFirst(r.H), !.calls = @ + 1,
                                  !.sets = @ + 1]
          /\ UNCHANGED <<v, err, pos, stack>>

\* o.Del(key) on an object held
TDel ==
    /\ hist.calls < MaxCalls
    /\ \E p \in {q \in hist.held : IsObject(heap, q)}, key \in KeyPool :
       \E r \in {ObjectDel(b, heap, p, key)} :
          /\ b' = r.b /\ heap' = r.H
          /\ last' = [op |-> "Del", p |-> p, key |-> key,
                      afterSet |-> last.op = "Set" /\ last.p = p /\ last.key = key,
                      got |-> ObjectGet(b, heap, p, key).v,
                      entries |-> LogicalEntries(b, heap, p)]
          /\ hist' = [hist EXCEPT !.first = NoFirst(r.H), !.calls = @ + 1,
                                  !.sets = @ + 1]
          /\ UNCHANGED <<v, err, pos, stack>>

\* the indexes the caller gives to SetArrayItem: inside a parsed array, right
\* after its end, and further
IdxPool == {0, 2, 4}

\* p.SetArrayItem(idx, value) on a value held
TSetArrayItem ==
    /\ hist.calls < MaxCalls
    /\ \E p \in hist.held, idx \in IdxPool, value \in SetValues :
       \E H \in {SetArrayItem(heap, p, idx, value)} :
          /\ heap' = H
          /\ last' = [op |-> "SetArrayItem", p |-> p, idx |-> idx, value |-> value,
                      arr |-> heap.mem[p].t = TypeArray, n |-> Len(heap.mem[p].a)]
          /\ hist' = [hist EXCEPT !.first = NoFirst(H), !.calls = @ + 1,
                                  !.sets = @ + 1]
          /\ UNCHANGED <<b, v, err, pos, stack>>

InitTree ==
    /\ b = <<>> /\ heap = EmptyHeap /\ v = NIL /\ err = <<>> /\ pos = 0
    /\ stack = <<>>
    /\ last = [op |-> "new", ret |-> TRUE]
    /\ hist = [input |-> <<>>, held |-> {}, first |-> NoFirst(EmptyHeap),
               calls |-> 0, sets |-> 0]

NextTree ==
    TParse \/ TGet \/ TType \/ TStringBytes \/ TVisit \/ TMarshal \/ TSet

SpecTree == InitTree /\ [][NextTree]_vars

\* the caller that changes the tree and then reads it
NextMutate == TParse \/ TSet \/ TDel \/ TSetArrayItem \/ TGet \/ TMarshal

SpecMutate == InitTree /\ [][NextMutate]_vars

-----------------------------------------------------------------------------
(* Two workers.  Worker 1 owns a Parser, worker 2 a Scanner; each calls the  *)
(* public operations on the values of its own tree, in any interleaving.      *)
(* The structs of both caches and the three singletons live in one memory,   *)
(* heap.mem; heap.c[w] is the cache.vs of worker w, b[w] its buffer, v[w]    *)
(* its root, err[w] its error and pos[w] the offset of its Scanner.  hist    *)
(* holds, for each worker, the structs its cache allocated, whether it has   *)
(* given its parser an input, and the number of calls it made on its tree;   *)
(* last names the worker that made the last call.                            *)

Workers == {1, 2}

\* the values of S and the values their arrays and objects refer to
WithChildren(S) ==
    S \cup UNION {{heap.mem[p].a[i] : i \in 1..Len(heap.mem[p].a)}
                      \cup {heap.mem[p].kvs[i].v : i \in 1..Len(heap.mem[p].kvs)}
                  : p \in S \ {NIL}}

\* the memory as the parser of worker w reaches it
HeapOf(w) == [mem |-> heap.mem, arr |-> heap.c[w].arr, len |-> heap.c[w].len]

\* the values of the tree of worker w
NodesOf(w) == WithChildren(WithChildren(WithChildren({v[w]}))) \ {NIL}

\* the Scanner of worker w
ScOf(w) == [b |-> b[w], pos |-> pos[w], err |-> err[w], v |-> v[w], H |-> HeapOf(w)]

\* the keys and the values the workers give to Get, Set and Del
WKeys == {<<Ch.slash>>, <<Ch.d0>>}
WValues(w) == {NIL} \cup (NodesOf(w) \cap {valueTrue})

\* the values a worker calls Get, Set, Del and SetArrayItem on: the objects,
\* the arrays and the literals of its tree
Targets(w) ==
    {q \in NodesOf(w) : heap.mem[q].t \notin {TypeString, typeRawString, TypeNumber}}

\* the state a call of worker w leaves: its buffer, the memory and its cache
\* as the call left them
AfterCall(w, bb, H, call, n) ==
    /\ b' = [b EXCEPT ![w] = bb]
    /\ heap' = [mem |-> H.mem,
                c |-> [heap.c EXCEPT ![w] = [arr |-> H.arr, len |-> H.len]]]
    /\ hist' = [hist EXCEPT !.own[w] = @ \cup (Len(heap.mem) + 1)..Len(H.mem),
                            !.fed[w] = TRUE,
                            !.calls[w] = @ + n]
    /\ last' = call
    /\ UNCHANGED stack

\* whether worker w may make one more call on its tree
MayCall(w) == v[w] # NIL /\ hist.calls[1] + hist.calls[2] < MaxCalls - 1

\* worker 1: p.Parse(s)
WParse ==
    /\ ~hist.fed[1]
    /\ \E s \in {TDoc3} :
       \E r \in {Parse(s, HeapOf(1))} :
          /\ AfterCall(1, r.b, r.H, [op |-> "Parse", w |-> 1], 0)
          /\ v' = [v EXCEPT ![1] = r.v] /\ err' = [err EXCEPT ![1] = r.err]
          /\ UNCHANGED pos

\* worker 2: sc.Init(s), s holding two documents
WInit ==
    /\ ~hist.fed[2]
    /\ \E sc \in {ScannerInit(ScOf(2), TDoc3 \o <<Ch.sp>> \o TDoc1)} :
          /\ AfterCall(2, sc.b, sc.H, [op |-> "Init", w |-> 2], 0)
          /\ v' = [v EXCEPT ![2] = sc.v] /\ err' = [err EXCEPT ![2] = sc.err]
          /\ pos' = [pos EXCEPT ![2] = sc.pos]

\* worker 2: sc.Next()
WNext ==
    /\ hist.fed[2] /\ err[2] = <<>>
    /\ \E r \in {ScannerNext(ScOf(2))} :
          /\ AfterCall(2, r.sc.b, r.sc.H, [op |-> "Next", w |-> 2], 0)
          /\ v' = [v EXCEPT ![2] = r.sc.v] /\ err' = [err EXCEPT ![2] = r.sc.err]
          /\ pos' = [pos EXCEPT ![2] = r.sc.pos]

\* a worker: p.Get(key)
WGet ==
    \E w \in Workers :
       /\ MayCall(w)
       /\ \E p \in Targets(w), key \in WKeys :
          \E g \in {ValueGet(b[w], HeapOf(w), p, <<key>>)} :
             /\ AfterCall(w, g.b, g.H, [op |-> "Get", w |-> w], 1)
             /\ UNCHANGED <<v, err, pos>>

\* a worker: p.Type()
WType ==
    \E w \in Workers :
       /\ MayCall(w)
       /\ \E p \in NodesOf(w) :
          \E ty \in {Type(b[w], HeapOf(w), p)} :
             /\ AfterCall(w, ty.b, ty.H, [op |-> "Type", w |-> w], 1)
             /\ UNCHANGED <<v, err, pos>>

\* a worker: p.GetStringBytes(key)
WStringBytes ==
    \E w \in Workers :
       /\ MayCall(w)
       /\ \E p \in Targets(w), key \in WKeys :
          \E g \in {GetStringBytes(b[w], HeapOf(w), p, <<key>>)} :
             /\ AfterCall(w, g.b, g.H, [op |-> "GetStringBytes", w |-> w], 1)
             /\ UNCHANGED <<v, err, pos>>

\* a worker: o.Visit(f)
WVisit ==
    \E w \in Workers :
       /\ MayCall(w)
       /\ \E p \in {q \in NodesOf(w) : IsObject(heap, q)} :
          \E vis \in {ObjectVisit(b[w], HeapOf(w), p)} :
             /\ AfterCall(w, vis.b, vis.H, [op |-> "Visit", w |-> w], 1)
             /\ UNCHANGED <<v, err, pos>>

\* a worker: v.MarshalTo(nil) on its root; the output is the caller's
WMarshal ==
    \E w \in Workers :
       /\ MayCall(w)
       /\ \E out \in {ValueMarshalTo(b[w], HeapOf(w), v[w])} :
             /\ AfterCall(w, b[w], HeapOf(w),
                          [op |-> "MarshalTo", w |-> w], 1)
             /\ UNCHANGED <<v, err, pos>>

\* a worker: p.Set(key, value)
WSet ==
    \E w \in Workers :
       /\ MayCall(w)
       /\ \E p \in Targets(w), key \in WKeys, value \in WValues(w) :
          \E r \in {ValueSet(b[w], HeapOf(w), p, key, value)} :
             /\ AfterCall(w, r.b, r.H, [op |-> "Set", w |-> w], 1)
             /\ UNCHANGED <<v, err, pos>>

\* a worker: p.Del(key)
WDel ==
    \E w \in Workers :
       /\ MayCall(w)
       /\ \E p \in Targets(w), key \in WKeys :
          \E r \in {ValueDel(b[w], HeapOf(w), p, key)} :
             /\ AfterCall(w, r.b, r.H, [op |-> "Del", w |-> w], 1)
             /\ UNCHANGED <<v, err, pos>>

\* a worker: p.SetArrayItem(idx, value)
WSetArrayItem ==
    \E w \in Workers :
       /\ MayCall(w)
       /\ \E p \in Targets(w), idx \in {0, 2}, value \in WValues(w) :
          \E H \in {SetArrayItem(HeapOf(w), p, idx, value)} :
             /\ AfterCall(w, b[w], H, [op |-> "SetArrayItem", w |-> w], 1)
             /\ UNCHANGED <<v, err, pos>>

InitWorkers ==
    /\ b = [w \in Workers |-> <<>>]
    /\ heap = [mem |-> Singletons, c |-> [w \in Workers |-> [arr |-> <<>>, len |-> 0]]]
    /\ v = [w \in Workers |-> NIL] /\ err = [w \in Workers |-> <<>>]
    /\ pos = [w \in Workers |-> 0]
    /\ stack = <<>>
    /\ last = [op |-> "new", w |-> 0]
    /\ hist = [own |-> [w \in Workers |-> {}], fed |-> [w \in Workers |-> FALSE],
               calls |-> [w \in Workers |-> 0]]

NextWorkers ==
    WParse \/ WInit \/ WNext \/ WGet \/ WType \/ WStringBytes \/ WVisit
        \/ WMarshal \/ WSet \/ WDel \/ WSetArrayItem

SpecWorkers == InitWorkers /\ [][NextWorkers]_vars

-----------------------------------------------------------------------------
(* The caller of parseRawNumber: one input of 1 to MaxLen bytes (the caller  *)
(* ensures len(s) > 0) is given to it; last holds what it returned: the raw  *)
(* slice, the offset of the tail and the error.                              *)

\* a digit, the signs, an exponent mark and the letters of inf and nan
RawChars == {Ch.d1, Ch.minus, Ch.plus, Ch.e, Ch.i, Ch.n, Ch.f, Ch.a, Ch.N}

RawPool == UNION {[1..n -> RawChars] : n \in 1..MaxLen}

\* parseRawNumber(s)
RParse ==
    /\ last.op = "new"
    /\ \E r \in {parseRawNumber(b, 0)} :
          last' = [op |-> "parseRawNumber", raw |-> Bytes(b, r.raw),
                   tail |-> r.tail, ok |-> r.err = <<>>]
    /\ UNCHANGED <<b, heap, v, err, pos, stack, hist>>

InitRaw ==
    /\ b \in RawPool
    /\ heap = EmptyHeap /\ v = NIL /\ err = <<>> /\ pos = 0 /\ stack = <<>>
    /\ last = [op |-> "new"]
    /\ hist = [input |-> b]

NextRaw == RParse

SpecRaw == InitRaw /\ [][NextRaw]_vars

-----------------------------------------------------------------------------
(* The caller of the string tokenizers: one input, the text after an opening *)
(* quote, made of quotes, backslashes and letters, is given to              *)
(* parseRawString or to parseRawKey; last holds what was returned.          *)

QuoteChars == {Ch.quote, Ch.bslash, Ch.a}

QuotePool == UNION {[1..n -> QuoteChars] : n \in 0..(MaxLen + 2)}

\* what the caller sees of a tokenizer's result
RawResult(op, bb, r) ==
    [op |-> op, raw |-> Bytes(bb, r.raw), tail |-> Drop(bb, r.tail),
     ok |-> r.err = <<>>, err |-> r.err]

\* parseRawString(s)
QString ==
    /\ last.op = "new"
    /\ last' = RawResult("parseRawString", b, parseRawString(b, 0))
    /\ UNCHANGED <<b, heap, v, err, pos, stack, hist>>

\* parseRawKey(s)
QKey ==
    /\ last.op = "new"
    /\ last' = RawResult("parseRawKey", b, parseRawKey(b, 0))
    /\ UNCHANGED <<b, heap, v, err, pos, stack, hist>>

InitQuote ==
    /\ b \in QuotePool
    /\ heap = EmptyHeap /\ v = NIL /\ err = <<>> /\ pos = 0 /\ stack = <<>>
    /\ last = [op |-> "new"]
    /\ hist = [input |-> b]

NextQuote == QString \/ QKey

SpecQuote == InitQuote /\ [][NextQuote]_vars

-----------------------------------------------------------------------------
(* The unescaper step by step.  The input is a raw string made of up to     *)
(* MaxLen - 1 pieces: escapes of surrogates and of other code points,       *)
(* simple, unknown and cut escapes, and a letter.  b is the memory the      *)
(* string lies in and is unescaped into, pos the read offset (s of the code *)
(* is b[pos:]), last.w the write offset (len(b) of the code) and last.op    *)
(* where the run stands: "case" at the head of the loop, "copy" after the   *)
(* switch, "done" after the return.  hist holds the pieces and the input.   *)

\* \uD834 and \uDD1E: a high and a low surrogate; \u0041: the letter A
EscHigh == <<Ch.bslash, Ch.u, 68, 56, 51, 52>>
EscLow == <<Ch.bslash, Ch.u, 68, 68, Ch.d1, Ch.E>>
EscA == <<Ch.bslash, Ch.u, Ch.d0, Ch.d0, 52, Ch.d1>>

\* \n, the unknown escape \x, the cut escape \u1Z and the letter a
PiecePool ==
    {EscHigh, EscLow, EscA, <<Ch.bslash, Ch.n>>, <<Ch.bslash, Ch.x>>,
     <<Ch.bslash, Ch.u, Ch.d1, Ch.Z>>, <<Ch.a>>}

RECURSIVE Concat(_)
Concat(ps) == IF ps = <<>> THEN <<>> ELSE Head(ps) \o Concat(Tail(ps))

PieceLists == UNION {[1..n -> PiecePool] : n \in 0..(MaxLen - 1)}

\* n := strings.IndexByte(s, '\\') and the fast path, or b = b[:n]; s = s[n+1:]
UStart ==
    /\ last.op = "new"
    /\ \E n \in {IndexBackslash(b, 0, Len(b))} :
          IF n < 0
          THEN last' = [op |-> "done", w |-> Len(b)] /\ pos' = Len(b)
          ELSE last' = [op |-> "case", w |-> n] /\ pos' = n + 1
    /\ UNCHANGED <<b, heap, v, err, stack, hist>>

\* the loop condition and the switch on the byte after the backslash
UCase ==
    /\ last.op = "case"
    /\ IF pos >= Len(b)
       THEN last' = [op |-> "done", w |-> last.w] /\ UNCHANGED <<b, pos>>
       ELSE \E c \in {unescapeCase(b, last.w, pos + 1, Len(b), b[pos + 1])} :
               b' = c.bs /\ pos' = c.r /\ last' = [op |-> "copy", w |-> c.w]
    /\ UNCHANGED <<heap, v, err, stack, hist>>

\* the search for the next backslash and the copy of the bytes before it
UCopy ==
    /\ last.op = "copy"
    /\ \E n \in {IndexBackslash(b, pos, Len(b))} :
          IF n < 0
          THEN /\ b' = WriteAt(b, last.w, SubSeq(b, pos + 1, Len(b)))
               /\ last' = [op |-> "done", w |-> last.w + (Len(b) - pos)]
               /\ pos' = Len(b)
          ELSE /\ b' = WriteAt(b, last.w, SubSeq(b, pos + 1, pos + n))
               /\ last' = [op |-> "case", w |-> last.w + n]
               /\ pos' = pos + n + 1
    /\ UNCHANGED <<heap, v, err, stack, hist>>

InitUnescape ==
    /\ \E ps \in PieceLists :
          b = Concat(ps) /\ hist = [pieces |-> ps, input |-> Concat(ps)]
    /\ heap = EmptyHeap /\ v = NIL /\ err = <<>> /\ pos = 0 /\ stack = <<>>
    /\ last = [op |-> "new", w |-> 0]

NextUnescape == UStart \/ UCase \/ UCopy

SpecUnescape == InitUnescape /\ [][NextUnescape]_vars

-----------------------------------------------------------------------------
(* The caller that touches the value the Scanner yields.  It initialises    *)
(* the scanner with two values, calls Next, and between the calls of Next   *)
(* it calls Type, GetStringBytes, Get, Visit, Set and Del on the values of  *)
(* the tree of Value().  hist holds the input, a second scanner which is    *)
(* given the same Init and Next calls and nothing else, and the numbers of  *)
(* calls.                                                                   *)

\* "\/A" and [1
VDoc1 == <<34, 92, 47, 92, 117, 48, 48, 52, 49, 34>>
VDoc2 == <<Ch.lbrack, Ch.d1>>

FirstPool == {TDoc1, TDoc2, TDoc3, VDoc1}
SecondPool == {TDoc1, TDoc3, VDoc1, VDoc2}

\* the children of the value at p, by its type
ChildrenOf(H, p) ==
    IF p = NIL THEN {}
    ELSE IF H.mem[p].t = TypeArray
    THEN {H.mem[p].a[i] : i \in 1..Len(H.mem[p].a)}
    ELSE IF H.mem[p].t = TypeObject
    THEN {H.mem[p].kvs[i].v : i \in 1..Len(H.mem[p].kvs)}
    ELSE {}

Grandchildren(H, S) == S \cup UNION {ChildrenOf(H, p) : p \in S}

\* the values of the tree of sc.Value(), while the scanner holds one
ValueNodes ==
    IF err # <<>> \/ v = NIL THEN {}
    ELSE Grandchildren(heap, Grandchildren(heap, Grandchildren(heap, {v}))) \ {NIL}

\* the state a call on a value of the tree leaves
AfterTouch(bb, H, op, p) ==
    /\ b' = bb /\ heap' = H
    /\ last' = [op |-> op, p |-> p, ret |-> TRUE, ref |-> TRUE]
    /\ hist' = [hist EXCEPT !.calls = @ + 1]
    /\ UNCHANGED <<v, err, pos, stack>>

\* sc.Init(s)
VInit ==
    /\ last.op = "new"
    /\ \E c1 \in FirstPool, c2 \in SecondPool :
       \E s \in {c1 \o <<Ch.sp>> \o c2} :
       \E sc \in {ScannerInit(Sc, s)} :
          /\ b' = sc.b /\ heap' = sc.H /\ v' = sc.v /\ err' = sc.err /\ pos' = sc.pos
          /\ last' = [op |-> "Init", p |-> NIL, ret |-> TRUE, ref |-> TRUE]
          /\ hist' = [input |-> s, ref |-> sc, calls |-> 0, nexts |-> 0]
          /\ UNCHANGED stack

\* sc.Next(), on both scanners
VNext ==
    /\ last.op # "new" /\ hist.nexts <= MaxChunks
    /\ \E r \in {ScannerNext(Sc)}, rr \in {ScannerNext(hist.ref)} :
          /\ b' = r.sc.b /\ heap' = r.sc.H /\ v' = r.sc.v /\ err' = r.sc.err
          /\ pos' = r.sc.pos
          /\ last' = [op |-> "Next", p |-> NIL, ret |-> r.ret, ref |-> rr.ret]
          /\ hist' = [hist EXCEPT !.ref = rr.sc, !.nexts = @ + 1]
          /\ UNCHANGED stack

\* p.Type()
VType ==
    /\ hist.calls < MaxCalls - 1
    /\ \E p \in ValueNodes :
       \E ty \in {Type(b, heap, p)} : AfterTouch(ty.b, ty.H, "Type", p)

\* p.GetStringBytes()
VStringBytes ==
    /\ hist.calls < MaxCalls - 1
    /\ \E p \in ValueNodes :
       \E g \in {GetStringBytes(b, heap, p, <<>>)} :
          AfterTouch(g.b, g.H, "GetStringBytes", p)

\* p.Get(key)
VGet ==
    /\ hist.calls < MaxCalls - 1
    /\ \E p \in ValueNodes, key \in KeyPool :
       \E g \in {ValueGet(b, heap, p, <<key>>)} : AfterTouch(g.b, g.H, "Get", p)

\* o.Visit(f)
VVisit ==
    /\ hist.calls < MaxCalls - 1
    /\ \E p \in {q \in ValueNodes : IsObject(heap, q)} :
       \E vis \in {ObjectVisit(b, heap, p)} : AfterTouch(vis.b, vis.H, "Visit", p)

\* p.Set(key, value)
VSet ==
    /\ hist.calls < MaxCalls - 1
    /\ \E p \in ValueNodes, key \in KeyPool, value \in {NIL, valueTrue} :
       \E r \in {ValueSet(b, heap, p, key, value)} : AfterTouch(r.b, r.H, "Set", p)

\* p.Del(key)
VDel ==
    /\ hist.calls < MaxCalls - 1
    /\ \E p \in ValueNodes, key \in KeyPool :
       \E r \in {ValueDel(b, heap, p, key)} : AfterTouch(r.b, r.H, "Del", p)

InitValue ==
    /\ b = <<>> /\ heap = EmptyHeap /\ v = NIL /\ err = <<>> /\ pos = 0
    /\ stack = <<>>
    /\ last = [op |-> "new", p |-> NIL, ret |-> TRUE, ref |-> TRUE]
    /\ hist = [input |-> <<>>, ref |-> NewScanner, calls |-> 0, nexts |-> 0]

NextValue == VInit \/ VNext \/ VType \/ VStringBytes \/ VGet \/ VVisit \/ VSet \/ VDel

SpecValue == InitValue /\ [][NextValue]_vars

-----------------------------------------------------------------------------
(* The caller that keeps one Parser.  It parses a document, calls accessors *)
(* and mutators on the values of the tree, and parses again with the same   *)
(* parser.  hist holds the input of the last Parse, what Parse returns for  *)
(* it on a parser that has not been used, and the numbers of calls.         *)

\* {"a":[ and [[1],"a"]
ADoc1 == <<123, 34, 97, 34, 58, 91>>
ADoc2 == <<91, 91, 49, 93, 44, 34, 97, 34, 93>>

AgainPool == {TDoc1, TDoc3, VDoc1, ADoc1, ADoc2}

\* the values of the tree Parse returned
TreeNodes ==
    IF v = NIL THEN {}
    ELSE Grandchildren(heap, Grandchildren(heap, Grandchildren(heap, {v}))) \ {NIL}

\* the state a call on a value of the tree leaves
AfterUse(bb, H, op) ==
    /\ b' = bb /\ heap' = H
    /\ last' = [op |-> op]
    /\ hist' = [hist EXCEPT !.calls = @ + 1]
    /\ UNCHANGED <<v, err, pos, stack>>

\* the caller makes MaxCalls + 1 calls at most, Parse calls included
MayUse == hist.parses + hist.calls <= MaxCalls

\* p.Parse(s), and Parse(s) on a new Parser
AParse ==
    /\ MayUse /\ hist.parses < MaxParses
    /\ \E s \in AgainPool :
       \E r \in {Parse(s, heap)} :
          /\ b' = r.b /\ heap' = r.H /\ v' = r.v /\ err' = r.err
          /\ last' = [op |-> "Parse"]
          /\ hist' = [input |-> s, fresh |-> Parse(s, EmptyHeap),
                      used |-> heap.len, calls |-> hist.calls,
                      parses |-> hist.parses + 1]
          /\ UNCHANGED <<pos, stack>>

\* p.Type()
AType ==
    /\ MayUse /\ hist.calls < MaxCalls - 1
    /\ \E p \in TreeNodes :
       \E ty \in {Type(b, heap, p)} : AfterUse(ty.b, ty.H, "Type")

\* p.Get(key)
AGet ==
    /\ MayUse /\ hist.calls < MaxCalls - 1
    /\ \E p \in TreeNodes, key \in WKeys :
       \E g \in {ValueGet(b, heap, p, <<key>>)} : AfterUse(g.b, g.H, "Get")

\* p.Set(key, value)
ASet ==
    /\ MayUse /\ hist.calls < MaxCalls - 1
    /\ \E p \in TreeNodes, key \in WKeys, value \in {NIL, valueTrue} :
       \E r \in {ValueSet(b, heap, p, key, value)} : AfterUse(r.b, r.H, "Set")

\* p.Del(key)
ADel ==
    /\ MayUse /\ hist.calls < MaxCalls - 1
    /\ \E p \in TreeNodes, key \in WKeys :
       \E r \in {ValueDel(b, heap, p, key)} : AfterUse(r.b, r.H, "Del")

\* p.SetArrayItem(idx, value)
ASetArrayItem ==
    /\ MayUse /\ hist.calls < MaxCalls - 1
    /\ \E p \in TreeNodes, idx \in IdxPool, value \in {NIL, valueTrue} :
       \E H \in {SetArrayItem(heap, p, idx, value)} : AfterUse(b, H, "SetArrayItem")

InitAgain ==
    /\ b = <<>> /\ heap = EmptyHeap /\ v = NIL /\ err = <<>> /\ pos = 0
    /\ stack = <<>>
    /\ last = [op |-> "new"]
    /\ hist = [input |-> <<>>, fresh |-> Parse(<<>>, EmptyHeap), used |-> 0,
               calls |-> 0, parses |-> 0]

NextAgain == AParse \/ AType \/ AGet \/ ASet \/ ADel \/ ASetArrayItem

SpecAgain == InitAgain /\ [][NextAgain]_vars

-----------------------------------------------------------------------------
(* fastfloat: the integer parsers.  A 64-bit integer is held as its decimal *)
(* digits without leading zeros, <<0>> for zero, with a flag for the sign:  *)
(* the values at stake have up to 20 digits.  A result is [ok, neg, digits].*)

IsDigit(c) == c >= Ch.d0 /\ c <= Ch.d9

\* the digits of a number without its leading zeros
Norm(ds) ==
    With({i \in 1..Len(ds) : ds[i] # 0}, LAMBDA nz :
        IF nz = {} THEN <<0>> ELSE SubSeq(ds, Min(nz), Len(ds)))

\* x < y for two numbers without leading zeros
Less(x, y) ==
    \/ Len(x) < Len(y)
    \/ /\ Len(x) = Len(y)
       /\ \E i \in 1..Len(x) :
             x[i] < y[i] /\ \A j \in 1..(i - 1) : x[j] = y[j]

\* 1<<64 - 1 and 1<<63
MaxUint64 == <<1, 8, 4, 4, 6, 7, 4, 4, 0, 7, 3, 7, 0, 9, 5, 5, 1, 6, 1, 5>>
Cutoff63 == <<9, 2, 2, 3, 3, 7, 2, 0, 3, 6, 8, 5, 4, 7, 7, 5, 8, 0, 8>>

IntFail == [ok |-> FALSE, neg |-> FALSE, digits |-> <<0>>]
IntOk(neg, ds) == [ok |-> TRUE, neg |-> neg /\ ds # <<0>>, digits |-> ds]

\* strconv.ParseUint(s, 10, 64): digits only, at least one, at most 1<<64 - 1
StrconvParseUint(s) ==
    IF s = <<>> \/ \E i \in 1..Len(s) : ~IsDigit(s[i]) THEN IntFail
    ELSE With(Norm([i \in 1..Len(s) |-> s[i] - Ch.d0]), LAMBDA un :
            IF Less(MaxUint64, un) THEN IntFail ELSE IntOk(FALSE, un))

\* strconv.ParseInt(s, 10, 64): an optional '+' or '-', then ParseUint, then
\* the range check against 1<<63
StrconvParseInt(s) ==
    IF s = <<>> THEN IntFail
    ELSE With(s[1] = Ch.minus, LAMBDA neg :
         With(StrconvParseUint(IF s[1] \in {Ch.plus, Ch.minus} THEN Tail(s) ELSE s),
              LAMBDA un :
                IF ~un.ok THEN IntFail
                ELSE IF ~neg /\ ~Less(un.digits, Cutoff63) THEN IntFail
                ELSE IF neg /\ Less(Cutoff63, un.digits) THEN IntFail
                ELSE IntOk(neg, un.digits)))

RECURSIVE digitLoop(_, _, _, _)
\* for i < uint(len(s)) { ... } of the four integer parsers, i counted from
\* 0 and d the digits read: where it stops, and whether it stopped at
\* i > limit
digitLoop(s, i, d, limit) ==
    IF i < Len(s) /\ IsDigit(s[i + 1])
    THEN IF i + 1 > limit THEN [i |-> i + 1, d |-> d, slow |-> TRUE]
         ELSE digitLoop(s, i + 1, Append(d, s[i + 1] - Ch.d0), limit)
    ELSE [i |-> i, d |-> d, slow |-> FALSE]

\* ParseUint64(s)
ParseUint64(s) ==
    IF Len(s) = 0 THEN IntFail
    ELSE With(digitLoop(s, 0, <<>>, 18), LAMBDA l :
            IF l.slow THEN StrconvParseUint(s)
            ELSE IF l.i <= 0 THEN IntFail
            ELSE IF l.i < Len(s) THEN IntFail
            ELSE IntOk(FALSE, Norm(l.d)))

\* ParseInt64(s)
ParseInt64(s) ==
    IF Len(s) = 0 THEN IntFail
    ELSE With(s[1] = Ch.minus, LAMBDA minus :
         With(IF minus THEN 1 ELSE 0, LAMBDA j :
            IF minus /\ j >= Len(s) THEN IntFail
            ELSE With(digitLoop(s, j, <<>>, 18), LAMBDA l :
                    IF l.slow THEN StrconvParseInt(s)
                    ELSE IF l.i <= j THEN IntFail
                    ELSE IF l.i < Len(s) THEN IntFail
                    ELSE IntOk(minus, Norm(l.d)))))

-----------------------------------------------------------------------------
(* fastfloat: the float parsers.  The float64 arithmetic is not carried     *)
(* out: a result says which way the value was computed (path "fast" from    *)
(* the digits read, "slow" by strconv.ParseFloat on the whole input,        *)
(* "special" for inf and nan, "error") and, for the fast path, the sign,    *)
(* the mantissa digits, the number of fractional digits and the exponent.   *)

\* len(float64pow10)
LenPow10 == 17

LitInfinity == <<Ch.i, Ch.n, Ch.f, Ch.i, Ch.n, Ch.i, Ch.t, Ch.y>>

FloatError == [path |-> "error", minus |-> FALSE, d |-> <<>>, frac |-> 0, exp |-> 0]
FloatSlow == [path |-> "slow", minus |-> FALSE, d |-> <<>>, frac |-> 0, exp |-> 0]
FloatSpecial(minus) ==
    [path |-> "special", minus |-> minus, d |-> <<>>, frac |-> 0, exp |-> 0]
FloatFast(minus, d, frac, exp) ==
    [path |-> "fast", minus |-> minus, d |-> Norm(d), frac |-> frac, exp |-> exp]

\* the loop over the fractional digits with the dot left out of the count
fracLoopDigitsOnly(s, i, j, d) ==
    With({n \in i..Len(s) : \A m \in (i + 1)..n : IsDigit(s[m])}, LAMBDA run :
        IF Max(run) - j - 1 >= LenPow10
        THEN [i |-> j + 1 + LenPow10, d |-> d, slow |-> TRUE]
        ELSE [i |-> Max(run),
              d |-> d \o [m \in 1..(Max(run) - i) |-> s[i + m] - Ch.d0],
              slow |-> FALSE])

RECURSIVE fracLoop(_, _, _, _)
\* the loop over the fractional digits: i counted from 0, j the start of the
\* integer part, d the digits read so far
fracLoop(s, i, j, d) ==
    IF i < Len(s) /\ IsDigit(s[i + 1])
    THEN IF (i + 1) - j >= LenPow10 THEN [i |-> i + 1, d |-> d, slow |-> TRUE]
         ELSE fracLoop(s, i + 1, j, Append(d, s[i + 1] - Ch.d0))
    ELSE [i |-> i, d |-> d, slow |-> FALSE]

RECURSIVE expLoop(_, _, _)
\* the loop over the exponent digits
expLoop(s, i, exp) ==
    IF i < Len(s) /\ IsDigit(s[i + 1])
    THEN IF exp * 10 + (s[i + 1] - Ch.d0) > 300
         THEN [i |-> i + 1, exp |-> exp, slow |-> TRUE]
         ELSE expLoop(s, i + 1, exp * 10 + (s[i + 1] - Ch.d0))
    ELSE [i |-> i, exp |-> exp, slow |-> FALSE]

\* Parse from "if s[i] == 'e' || s[i] == 'E'" on
floatExponent(s, i0, minus, d, frac) ==
    IF s[i0 + 1] \notin {Ch.e, Ch.E} THEN FloatError
    ELSE IF i0 + 1 >= Len(s) THEN FloatError
    ELSE With(s[i0 + 2] \in {Ch.plus, Ch.minus}, LAMBDA signed :
         With(IF signed THEN i0 + 2 ELSE i0 + 1, LAMBDA j :
            IF j >= Len(s) THEN FloatError
            ELSE With(expLoop(s, j, 0), LAMBDA l :
                    IF l.slow THEN FloatSlow
                    ELSE IF l.i <= j THEN FloatError
                    ELSE IF l.i >= Len(s)
                    THEN FloatFast(minus, d, frac,
                                   IF signed /\ s[i0 + 2] = Ch.minus
                                   THEN 0 - l.exp ELSE l.exp)
                    ELSE FloatError)))

\* Parse from "if s[i] == '.'" on, i < len(s)
floatFraction(s, i0, j, minus, d) ==
    IF s[i0 + 1] # Ch.dot THEN floatExponent(s, i0, minus, d, 0)
    \* the fractional part is elided: return f, nil, minus not applied
    ELSE IF i0 + 1 >= Len(s) THEN FloatFast(FALSE, d, 0, 0)
    ELSE With(fracLoop(s, i0 + 1, j, d), LAMBDA l :
            IF l.slow THEN FloatSlow
            ELSE IF l.i >= Len(s) THEN FloatFast(minus, l.d, l.i - (i0 + 1), 0)
            ELSE floatExponent(s, l.i, minus, l.d, l.i - (i0 + 1)))

\* the inf / nan branch of Parse: ss = s[i:]
floatSpecial(s, i, minus) ==
    With(IF i < Len(s) /\ s[i + 1] = Ch.plus THEN Drop(s, i + 1) ELSE Drop(s, i),
         LAMBDA ss :
            IF EqualFold(ss, LitInf) \/ EqualFold(ss, LitInfinity) THEN FloatSpecial(minus)
            ELSE IF EqualFold(ss, LitNan) THEN FloatSpecial(FALSE)
            ELSE FloatError)

\* fastfloat.Parse(s)
fastfloatParse(s) ==
    IF Len(s) = 0 THEN FloatError
    ELSE With(s[1] = Ch.minus, LAMBDA minus :
         With(IF minus THEN 1 ELSE 0, LAMBDA j :
            IF minus /\ j >= Len(s) THEN FloatError
            ELSE IF s[j + 1] = Ch.dot /\ (j + 1 >= Len(s) \/ ~IsDigit(s[j + 2]))
            THEN FloatError
            ELSE With(digitLoop(s, j, <<>>, 18), LAMBDA l :
                    IF l.slow THEN FloatSlow
                    ELSE IF l.i <= j /\ s[l.i + 1] # Ch.dot
                    THEN floatSpecial(s, l.i, minus)
                    ELSE IF l.i >= Len(s) THEN FloatFast(minus, l.d, 0, 0)
                    ELSE floatFraction(s, l.i, j, minus, l.d))))

\* fastfloat.ParseBestEffort(s): the same steps, 0 for an error
fastfloatParseBestEffort(s) ==
    With(fastfloatParse(s), LAMBDA r :
        IF r.path = "error" THEN FloatFast(FALSE, <<0>>, 0, 0) ELSE r)

-----------------------------------------------------------------------------
(* The caller of the integer parsers: one input, made of an optional sign,  *)
(* digits and an optional tail, is given to ParseInt64 or to ParseUint64.   *)

MaxDigits == 20

\* the characters of a sequence of digits
DigitChars(ds) == [i \in 1..Len(ds) |-> Ch.d0 + ds[i]]

\* n nines, a one and n - 1 zeros, n - 1 zeros and a one, for every length,
\* and the numbers around 1<<63 and 1<<64
DigitPool ==
    UNION {{[i \in 1..n |-> 9],
            [i \in 1..n |-> IF i = 1 THEN 1 ELSE 0],
            [i \in 1..n |-> IF i = n THEN 1 ELSE 0]} : n \in 0..MaxDigits}
    \cup {MaxUint64, [MaxUint64 EXCEPT ![20] = 6],
          Cutoff63, [Cutoff63 EXCEPT ![19] = 7], [Cutoff63 EXCEPT ![19] = 9]}

IntPool ==
    {sign \o DigitChars(ds) \o tail :
        sign \in {<<>>, <<Ch.minus>>, <<Ch.plus>>, <<Ch.minus, Ch.minus>>},
        ds \in DigitPool,
        tail \in {<<>>, <<Ch.x>>, <<Ch.dot, Ch.d0>>}}

\* fastfloat.ParseInt64(s)
IParseInt64 ==
    /\ last.op = "new"
    /\ last' = [op |-> "ParseInt64", res |-> ParseInt64(hist.input)]
    /\ UNCHANGED <<b, heap, v, err, pos, hist, stack>>

\* fastfloat.ParseUint64(s)
IParseUint64 ==
    /\ last.op = "new"
    /\ last' = [op |-> "ParseUint64", res |-> ParseUint64(hist.input)]
    /\ UNCHANGED <<b, heap, v, err, pos, hist, stack>>

InitInt ==
    /\ b = <<>> /\ heap = EmptyHeap /\ v = NIL /\ err = <<>> /\ pos = 0
    /\ stack = <<>>
    /\ last = [op |-> "new", ret |-> TRUE]
    /\ \E s \in IntPool : hist = [input |-> s]

NextInt == IParseInt64 \/ IParseUint64

SpecInt == InitInt /\ [][NextInt]_vars

-----------------------------------------------------------------------------
(* The caller of the float parsers: one input, made of an optional '-', a   *)
(* number of integer digits, an optional point with a number of fractional  *)
(* digits, and a tail, is given to Parse or to ParseBestEffort.             *)

\* nothing, two exponents, an exponent above 300, a letter, and inf
FloatTails ==
    {<<>>, <<Ch.e, Ch.d2>>, <<Ch.E, Ch.minus, Ch.d1>>,
     <<Ch.e, Ch.d9, Ch.d9, Ch.d9>>, <<Ch.x>>, LitInf}

Sevens(n) == [i \in 1..n |-> Ch.d0 + 7]

FloatInput(minus, ni, dot, nf, tail) ==
    (IF minus THEN <<Ch.minus>> ELSE <<>>) \o Sevens(ni)
    \o (IF dot THEN <<Ch.dot>> ELSE <<>>) \o Sevens(nf) \o tail

\* fastfloat.Parse(s)
FParse ==
    /\ last.op = "new"
    /\ last' = [op |-> "Parse", res |-> fastfloatParse(hist.input)]
    /\ UNCHANGED <<b, heap, v, err, pos, hist, stack>>

\* fastfloat.ParseBestEffort(s)
FParseBestEffort ==
    /\ last.op = "new"
    /\ last' = [op |-> "ParseBestEffort", res |-> fastfloatParseBestEffort(hist.input)]
    /\ UNCHANGED <<b, heap, v, err, pos, hist, stack>>

InitFloat ==
    /\ b = <<>> /\ heap = EmptyHeap /\ v = NIL /\ err = <<>> /\ pos = 0
    /\ stack = <<>>
    /\ last = [op |-> "new", ret |-> TRUE]
    /\ \E minus \in BOOLEAN, ni \in 0..MaxDigits, dot \in BOOLEAN,
          nf \in 0..MaxDigits, tail \in FloatTails :
          /\ ~dot => nf = 0
          /\ hist = [input |-> FloatInput(minus, ni, dot, nf, tail),
                     minus |-> minus, ni |-> ni, dot |-> dot, nf |-> nf,
                     tail |-> tail]

NextFloat == FParse \/ FParseBestEffort

SpecFloat == InitFloat /\ [][NextFloat]_vars

-----------------------------------------------------------------------------
(* The parser on the special number tokens: a token made of an optional     *)
(* sign and a word in some letter case, at the top level, as an array       *)
(* element and as an object value.  hist holds the token, the place and the *)
(* input.                                                                   *)

\* the spellings of a lower-case word in every letter case
Cases(word) ==
    {[i \in 1..Len(word) |-> IF up[i] THEN word[i] - 32 ELSE word[i]] :
        up \in [1..Len(word) -> BOOLEAN]}

SignPool == {<<>>, <<Ch.plus>>, <<Ch.minus>>}

WordPool == Cases(LitNan) \cup Cases(LitInf) \cup Cases(LitInfinity)

Places == {"top", "element", "value"}

\* the input with the token at the place
Placed(token, place) ==
    IF place = "top" THEN token
    ELSE IF place = "element" THEN <<Ch.lbrack>> \o token \o <<Ch.rbrack>>
    ELSE <<Ch.lbrace, Ch.quote, Ch.k, Ch.quote, Ch.colon>> \o token \o <<Ch.rbrace>>

\* p.Parse of the input on a new parser
NParse ==
    /\ last.op = "new"
    /\ \E r \in {Parse(hist.input, heap)} :
          /\ b' = r.b /\ heap' = r.H /\ v' = r.v /\ err' = r.err
          /\ last' = [op |-> "Parse", ret |-> r.err = <<>>]
          /\ UNCHANGED <<hist, pos, stack>>

InitSpecial ==
    /\ b = <<>> /\ heap = EmptyHeap /\ v = NIL /\ err = <<>> /\ pos = 0
    /\ stack = <<>>
    /\ last = [op |-> "new", ret |-> TRUE]
    /\ \E sign \in SignPool, word \in WordPool, place \in Places :
          hist = [token |-> sign \o word, word |-> word, place |-> place,
                  input |-> Placed(sign \o word, place)]

NextSpecial == NParse

SpecSpecial == InitSpecial /\ [][NextSpecial]_vars

-----------------------------------------------------------------------------
(* Claims about the Scanner *)

\* Parser.Parse on a new Parser accepts s
Accepts(s) == Parse(s, EmptyHeap).err = <<>>

\* the tree Parser.Parse on a new Parser returns for s
ParseTree(s) == With(Parse(s, EmptyHeap), LAMBDA r : Tree(r.b, r.H, r.v, TreeFuel))

\* the tree behind Scanner.Value()
ValueTree == Tree(b, heap, ScannerValue(Sc), TreeFuel)

\* Scanner.Error() for the error field e
ErrorOf(e) == ScannerError([NewScanner EXCEPT !.err = e])

\* every byte of s is one of the four JSON whitespace bytes
AllWS(s) == \A i \in 1..Len(s) : s[i] \in {Ch.sp, Ch.tab, Ch.lf, Ch.cr}

\* C1: when the input is n chunks that Parser.Parse accepts one by one, joined by
\* whitespace, the first n calls of Next return true and leave in Value() the
\* tree Parse returns for the chunk of that call, and every later call returns
\* false with Error() == nil.
C1_ScannerYieldsEachValue ==
    (last.op = "Next" /\ \A i \in 1..Len(hist.chunks) : Accepts(hist.chunks[i]))
    => IF hist.calls <= Len(hist.chunks)
       THEN last.ret /\ ValueTree = ParseTree(hist.chunks[hist.calls])
       ELSE ~last.ret /\ ScannerError(Sc) = <<>>

\* C2: once Next has returned false since Init, a further Next returns false and
\* changes neither the cursor, nor the arena, nor Value(), nor what Error()
\* returns; the first Next that returns false leaves Error() nil exactly when
\* only whitespace was left; Init leaves Error() nil and Value() nil, and the
\* Next after it does what it does on a new Scanner given the same input.
C2_Step ==
    /\ (last'.op = "Next" /\ hist.falses > 0)
       => /\ ~last'.ret
          /\ pos' = pos /\ heap' = heap /\ v' = v
          /\ ErrorOf(err') = ErrorOf(err)
    /\ (last'.op = "Next" /\ ~last'.ret /\ hist.falses = 0)
       => ((ErrorOf(err') = <<>>) <=> AllWS(Drop(b, pos)))
    /\ last'.op = "Init" => (ErrorOf(err') = <<>> /\ v' = NIL)
    /\ (last.op = "Init" /\ last'.op = "Next")
       => \A fresh \in {ScannerNext(ScannerInit(NewScanner, b))} :
             /\ last'.ret = fresh.ret
             /\ fresh.ret => Tree(b', heap', v', TreeFuel)
                             = Tree(fresh.sc.b, fresh.sc.H, fresh.sc.v, TreeFuel)

C2_StickyUntilInit == [][C2_Step]_vars

\* a Next that returns true after an Init that followed a parse failure and a
\* second Next that returned false
C2_Witness == last.op = "Next" /\ last.ret /\ hist.afterSticky

\* C3 as claimed: Value() is the tree of the last Next that returned true, with
\* its content as it was then, whatever Next returned since.
C3_ValueIntactAfterAnyNext == ValueTree = hist.okTree

\* C3 as amended: Value() is the pointer the last Next that returned true left
\* (nil if none since Init), and the tree behind it is as it was then as long
\* as Error() is nil, that is as long as no Next since Init failed to parse.
C3_ValueIntactUntilParseFailure ==
    /\ ScannerValue(Sc) = hist.okRef
    /\ ScannerError(Sc) = <<>> => ValueTree = hist.okTree

\* Next has returned false at the end of the input after a Next that left an
\* array with an element
C3_Witness ==
    /\ last.op = "Next" /\ ~last.ret /\ err = errEOF
    /\ hist.okRef # NIL /\ hist.okTree.t = TypeArray /\ Len(hist.okTree.a) > 0
    /\ ValueTree = hist.okTree

-----------------------------------------------------------------------------
(* Claims about the depth limit *)

\* the error says the depth limit was exceeded
RejectedForDepth == \E i \in 1..Len(err) : err[i] = ErrDepth[1]

\* the calls of parseArray and parseObject in progress, and the level at
\* which parseValue went on, never exceed MaxDepth
RecursionBounded == Len(stack) <= MaxDepth /\ hist.deepest <= MaxDepth

\* C5 as claimed: an input of more than MaxDepth nested containers makes Parse
\* and Next return an error (Parse with a nil value), the recursion never goes
\* deeper than MaxDepth, and an input of at most MaxDepth nested containers is
\* not rejected for depth.
C5_DepthLimitByContainers ==
    /\ RecursionBounded
    /\ hist.k <= MaxDepth => ~RejectedForDepth
    /\ (last.op = "done" /\ hist.k > MaxDepth)
       => (~last.ret /\ err # <<>> /\ v = NIL)

\* C5 as amended: the level of a value counts the scalars too (the top-level
\* value is at level 1, a scalar in k nested containers at level k + 1).  An
\* input with a value at a level above MaxDepth is rejected for depth, the
\* recursion never goes deeper than MaxDepth, and an input with every value
\* at a level of at most MaxDepth is accepted.
C5_DepthLimitByLevels ==
    /\ RecursionBounded
    /\ hist.levels <= MaxDepth => ~RejectedForDepth
    /\ last.op = "done"
       => /\ hist.levels > MaxDepth
             => (~last.ret /\ RejectedForDepth /\ v = NIL)
          /\ hist.levels <= MaxDepth
             => (last.ret /\ err = <<>> /\ v # NIL /\ hist.deepest = hist.levels)

\* a scalar at level MaxDepth has been accepted
C5_Witness ==
    /\ last.op = "done" /\ last.ret
    /\ hist.levels = MaxDepth /\ hist.k = MaxDepth - 1 /\ hist.deepest = MaxDepth

-----------------------------------------------------------------------------
(* Claims about Parse and MarshalTo *)

JsonWS == {Ch.sp, Ch.tab, Ch.lf, Ch.cr}

\* the number of bytes of JSON whitespace s starts with
LeadingWS(s) == Min({i \in 0..Len(s) : i = Len(s) \/ s[i + 1] \notin JsonWS})

\* s is whitespace, a value parseValue recognises, and whitespace
WhitespaceValueWhitespace(s) ==
    \E r \in {parseValue(s, LeadingWS(s), EmptyHeap, 0)} :
       /\ r.err = <<>>
       /\ \A i \in (r.tail + 1)..Len(s) : s[i] \in JsonWS

\* C4: Parse(s) succeeds exactly when s is whitespace, one value recognised by
\* parseValue and whitespace up to the end; it then returns that value, and
\* otherwise an error and a nil value.  Empty and whitespace-only inputs are
\* errors.
C4_ParseAcceptsOneValue ==
    last.op = "Parse"
    => /\ (err = <<>>) = WhitespaceValueWhitespace(hist.input)
       /\ err # <<>> => v = NIL
       /\ err = <<>>
          => /\ v # NIL
             /\ Tree(b, heap, v, TreeFuel)
                = With(parseValue(hist.input, LeadingWS(hist.input), EmptyHeap, 0),
                       LAMBDA r : Tree(hist.input, r.H, r.v, TreeFuel))
       /\ (\A i \in 1..Len(hist.input) : hist.input[i] \in JsonWS) => err # <<>>

\* Parse accepted an input with whitespace before and after the value
C4_Witness ==
    /\ last.op = "Parse" /\ err = <<>> /\ Len(hist.input) >= 3
    /\ hist.input[1] \in JsonWS /\ hist.input[Len(hist.input)] \in JsonWS

\* the number of backslashes right before byte i of s
BackslashesBefore(s, i) ==
    Max({k \in 0..(i - 1) : \A j \in (i - k)..(i - 1) : s[j] = Ch.bslash})

\* the quotes of s that open or close a string literal
StringQuotes(s) ==
    {i \in 1..Len(s) : s[i] = Ch.quote /\ BackslashesBefore(s, i) % 2 = 0}

\* the bytes of s that are whitespace outside its string literals
TokenSpace(s) ==
    With(StringQuotes(s),
         LAMBDA q :
            {i \in 1..Len(s) :
                s[i] \in JsonWS /\ Cardinality({j \in q : j < i}) % 2 = 0})

\* s without the whitespace outside its string literals
StripWS(s) ==
    With((1..Len(s)) \ TokenSpace(s),
         LAMBDA keep :
            [k \in 1..Cardinality(keep) |->
                s[CHOOSE i \in keep : Cardinality({j \in keep : j <= i}) = k]])

\* C8: MarshalTo of the untouched tree Parse returned for s is s without the
\* whitespace between its tokens, and marshalling the parse of that output
\* gives the same output again.
C8_MarshalIsInputWithoutWhitespace ==
    last.op = "MarshalTo"
    => /\ hist.outs[Len(hist.outs)] = StripWS(hist.input)
       /\ Len(hist.outs) = 2 => hist.outs[2] = hist.outs[1]

\* the output of a string with an escape was parsed and marshalled again, and
\* the first input held whitespace
C8_Witness ==
    /\ last.op = "MarshalTo" /\ Len(hist.outs) = 2
    /\ \E i \in 1..Len(hist.outs[2]) : hist.outs[2][i] = Ch.bslash
    /\ \E i \in 1..Len(hist.outs[2]) : hist.outs[2][i] = Ch.lbrace

-----------------------------------------------------------------------------
(* Claims about the accessors *)

Reads == {"Get", "Type", "GetStringBytes", "Visit", "MarshalTo"}

\* C6: with no parse and no mutator in between, a read accessor called again
\* on the same value with the same arguments returns what it returned the
\* first time, whatever other read accessors were called in between.
C6_ReadsAreDeterministic ==
    last.op \in Reads => last.res = last.first

\* the first entry whose key denotes the string key, or 0
FirstLogical(entries, key) ==
    With({i \in 1..Len(entries) : entries[i].key = key},
         LAMBDA hits : IF hits = {} THEN 0 ELSE Min(hits))

\* C7: Object.Get(key) returns the value of the first entry, in insertion
\* order, whose key denotes the string key, however the keys are written;
\* Visit reports every entry, duplicates included, in source order.
C7_GetReturnsFirstEntry ==
    /\ (last.op = "Get" /\ last.obj)
       => \A i \in {FirstLogical(last.entries, last.key)} :
             last.res = IF i = 0 THEN NIL ELSE last.entries[i].v
    /\ last.op = "Visit" => last.res = last.entries

RECURSIVE LogicalTree(_, _, _, _)
\* the document a tree stands for: strings and keys as the strings they
\* denote, raw or unescaped
LogicalTree(bb, H, p, fuel) ==
    IF p = NIL \/ fuel = 0 THEN NilTree
    ELSE With(H.mem[p], LAMBDA val :
            [t |-> IF val.t = typeRawString THEN TypeString ELSE val.t,
             s |-> IF val.t = TypeNumber THEN Bytes(bb, val.s)
                   ELSE IF val.t \in {TypeString, typeRawString}
                   THEN LogicalBytes(bb, val.s, val.t = TypeString)
                   ELSE <<>>,
             a |-> IF val.t = TypeArray
                   THEN [i \in 1..Len(val.a) |-> LogicalTree(bb, H, val.a[i], fuel - 1)]
                   ELSE <<>>,
             kvs |-> IF val.t = TypeObject
                     THEN [i \in 1..Len(val.kvs) |->
                              [k |-> LogicalBytes(bb, val.kvs[i].k, val.ku),
                               v |-> LogicalTree(bb, H, val.kvs[i].v, fuel - 1)]]
                     ELSE <<>>,
             ku |-> FALSE])

\* C9: for a parsed input, whatever read accessors have upgraded strings and
\* unescaped keys since, MarshalTo on the root parses again to an equal tree.
C9_MarshalReparsesToEqualTree ==
    (last.op # "new" /\ err = <<>> /\ hist.sets = 0)
    => \A r \in {Parse(ValueMarshalTo(b, heap, v), EmptyHeap)} :
          /\ r.err = <<>>
          /\ LogicalTree(r.b, r.H, r.v, TreeFuel) = LogicalTree(b, heap, v, TreeFuel)

\* C10: after o.Set(k, v), o.Get(k) returns v, the null singleton standing
\* for a nil v, whether or not the keys of o were unescaped before and
\* whether or not o holds k more than once.
C10_GetAfterSet ==
    last.op = "Set"
    => ObjectGet(b, heap, last.p, last.key).v
       = IF last.value = NIL THEN valueNull ELSE last.value

\* Set has replaced the value of a key that an object with raw keys holds
\* twice
C10_Witness ==
    /\ last.op = "Set" /\ ~last.ku /\ last.value = valueTrue
    /\ Len(heap.mem[last.p].kvs) = last.len
    /\ Cardinality({i \in 1..last.len :
                       Bytes(b, heap.mem[last.p].kvs[i].k) = last.key}) = 2

-----------------------------------------------------------------------------
(* Claims about the mutators *)

\* C11: after o.Set(k, v) followed by o.Del(k), o.Get(k) returns nil, also
\* for an object that was parsed with duplicate keys.
C11_GetAfterSetDel ==
    (last.op = "Del" /\ last.afterSet)
    => ObjectGet(b, heap, last.p, last.key).v = NIL

\* the value Set stores for value
Stored(value) == IF value = NIL THEN valueNull ELSE value

\* C12: Set on a key the object holds replaces the value of the first entry
\* with that key and nothing else; Set on a new key appends one entry; Del
\* removes the one entry Get(key) would have returned, and nothing when Get
\* would have returned nil.  The other entries keep their keys, values and
\* order.
C12_SetDelFrame ==
    /\ last.op = "Set"
       => \A i \in {FirstLogical(last.entries, last.key)} :
             LogicalEntries(b, heap, last.p)
             = IF i = 0
               THEN Append(last.entries, [key |-> last.key, v |-> Stored(last.value)])
               ELSE [last.entries EXCEPT ![i].v = Stored(last.value)]
    /\ last.op = "Del"
       => IF last.got = NIL
          THEN LogicalEntries(b, heap, last.p) = last.entries
          ELSE \E i \in 1..Len(last.entries) :
                  /\ last.entries[i].v = last.got
                  /\ last.entries[i].key = last.key
                  /\ LogicalEntries(b, heap, last.p)
                     = SubSeq(last.entries, 1, i - 1)
                       \o SubSeq(last.entries, i + 1, Len(last.entries))

\* after a Set, Del has removed one of the two entries of an object, both
\* with the key asked for
C12_Witness ==
    /\ last.op = "Del" /\ last.got # NIL /\ hist.sets = 2
    /\ Len(last.entries) = 2 /\ last.entries[1].key = last.entries[2].key
    /\ Len(heap.mem[last.p].kvs) = 1

\* C13: SetArrayItem(i, v) with i >= 0 on an array of length n leaves an array
\* of length max(n, i + 1) whose element i is v, whose elements n..i-1 are
\* the null singleton and whose other elements are unchanged, and touches
\* nothing else; on a value that is not an array it changes nothing.
C13_Step ==
    last'.op = "SetArrayItem"
    => /\ b' = b
       /\ \A q \in DOMAIN heap.mem \ {last'.p} : heap'.mem[q] = heap.mem[q]
       /\ IF heap.mem[last'.p].t # TypeArray THEN heap' = heap
          ELSE \A old \in {heap.mem[last'.p].a}, new \in {heap'.mem[last'.p].a} :
                  /\ heap'.mem[last'.p] = [heap.mem[last'.p] EXCEPT !.a = new]
                  /\ Len(new) = Max({Len(old), last'.idx + 1})
                  /\ new[last'.idx + 1] = last'.value
                  /\ \A i \in (Len(old) + 1)..last'.idx : new[i] = valueNull
                  /\ \A i \in 1..Len(old) : i # last'.idx + 1 => new[i] = old[i]

C13_SetArrayItem == [][C13_Step]_vars

\* SetArrayItem has put a value two places after the end of an array
C13_Witness ==
    /\ last.op = "SetArrayItem" /\ last.arr /\ last.value = valueTrue
    /\ last.idx = last.n + 2 /\ Len(heap.mem[last.p].a) = last.n + 3

-----------------------------------------------------------------------------
(* Claims about numbers *)

\* the value at the place of the token in the tree Parse returned
PlacedValue ==
    IF v = NIL THEN NIL
    ELSE IF hist.place = "top" THEN v
    ELSE IF hist.place = "element"
    THEN (IF heap.mem[v].t = TypeArray /\ Len(heap.mem[v].a) = 1
          THEN heap.mem[v].a[1] ELSE NIL)
    ELSE (IF heap.mem[v].t = TypeObject /\ Len(heap.mem[v].kvs) = 1
          THEN heap.mem[v].kvs[1].v ELSE NIL)

\* C14: where a number is expected the parser accepts NaN, Inf and Infinity
\* in any letter case with an optional sign, as one Number node whose payload
\* is the whole token.
C14_SpecialNumbersAccepted ==
    last.op = "Parse"
    => /\ err = <<>>
       /\ PlacedValue # NIL
       /\ heap.mem[PlacedValue].t = TypeNumber
       /\ Bytes(b, heap.mem[PlacedValue].s) = hist.token

\* C15: ParseInt64(s) and ParseUint64(s) succeed on the same inputs as
\* strconv.ParseInt(s, 10, 64) and strconv.ParseUint(s, 10, 64) and return the
\* same integer, at the 18- and 19-digit boundaries too, with and without a
\* leading '-'.
C15_SameAsStrconv ==
    /\ last.op = "ParseInt64" => last.res = StrconvParseInt(hist.input)
    /\ last.op = "ParseUint64" => last.res = StrconvParseUint(hist.input)

\* the input is a number: at least one mantissa digit and nothing or an
\* exponent of at most 300 after it
WellFormed ==
    /\ hist.ni + hist.nf >= 1
    /\ hist.tail \in {<<>>, <<Ch.e, Ch.d2>>, <<Ch.E, Ch.minus, Ch.d1>>}

\* C16 as stated: the float parsers take the fast path for every mantissa of
\* at most 17 digits, integer and fractional digits together, and fall back
\* to the standard library from 18 digits on, with or without a decimal
\* point and a leading '-'.
C16_FallbackByDigitCount ==
    (last.op \in {"Parse", "ParseBestEffort"} /\ WellFormed)
    => /\ hist.ni + hist.nf <= 17 => last.res.path = "fast"
       /\ hist.ni + hist.nf >= 18 => last.res.path = "slow"

\* i at the end of the integer part, the leading '-' counted, and i - j at
\* the end of the fractional part, the point counted
IntegerCount == hist.ni + (IF hist.minus THEN 1 ELSE 0)
MantissaCount == hist.ni + 1 + hist.nf

\* C16 amended: the integer loop falls back when the characters read, a
\* leading '-' included, exceed 18; the fraction loop falls back when the
\* integer digits, the point and the fractional digits together reach 17,
\* that is from 16 mantissa digits on.  Otherwise the fast path is taken.
C16_FallbackByPosition ==
    (last.op \in {"Parse", "ParseBestEffort"} /\ WellFormed)
    => (last.res.path = "slow")
       = (\/ IntegerCount > 18
          \/ hist.dot /\ hist.nf >= 1 /\ MantissaCount >= LenPow10)
       /\ last.res.path \in {"slow", "fast"}

\* a mantissa of 16 digits with a point went to the standard library
C16_Witness ==
    /\ last.op = "Parse" /\ WellFormed /\ hist.dot /\ ~hist.minus
    /\ hist.ni = 8 /\ hist.nf = 8 /\ last.res.path = "slow"

-----------------------------------------------------------------------------
(* Claims about the tree after Set, Del and SetArrayItem *)

Tags == {TypeNull, TypeObject, TypeArray, TypeString, TypeNumber, TypeTrue,
         TypeFalse, typeRawString}

\* the values of the tree under the root, nil references left out
Nodes == WithChildren(WithChildren(WithChildren({v}))) \ {NIL}

\* C17: after Parse and any sequence of Set, Del and SetArrayItem calls, with
\* any key, index and value, nil included, every array element and every
\* object value is a non-nil node with one of the eight tags, and MarshalTo
\* does not panic.
C17_NoNilChild ==
    /\ \A p \in Nodes :
          /\ heap.mem[p].t \in Tags
          /\ \A i \in 1..Len(heap.mem[p].a) : heap.mem[p].a[i] # NIL
          /\ \A i \in 1..Len(heap.mem[p].kvs) : heap.mem[p].kvs[i].v # NIL
    /\ last.op = "MarshalTo" => \A i \in 1..Len(last.res) : last.res[i] >= 0

\* the singletons behind the literals
Literals == {valueTrue, valueFalse, valueNull}

\* the structs of the backing arrays the cache has had
Slots == (Len(Singletons) + 1)..Len(heap.mem)

\* the references an array or object p holds
Children(p) ==
    {heap.mem[p].a[i] : i \in 1..Len(heap.mem[p].a)}
        \cup {heap.mem[p].kvs[i].v : i \in 1..Len(heap.mem[p].kvs)}

-----------------------------------------------------------------------------
(* Claims about two workers *)

\* what a call of one worker leaves alone: the singletons, and the buffer,
\* the cache, the root and the structs of the other worker
C19_Step ==
    /\ SubSeq(heap'.mem, 1, Len(Singletons)) = Singletons
    /\ \A w \in Workers \ {last'.w} :
          /\ b'[w] = b[w] /\ heap'.c[w] = heap.c[w]
          /\ v'[w] = v[w] /\ err'[w] = err[w] /\ pos'[w] = pos[w]
          /\ \A q \in hist.own[w] : heap'.mem[q] = heap.mem[q]

\* what the two workers share: no struct of their caches, and in their
\* trees the singletons only
C19_Shared ==
    /\ hist.own[1] \cap hist.own[2] = {}
    /\ \A w \in Workers : NodesOf(w) \subseteq hist.own[w] \cup Literals

\* C19: under any interleaving of two workers that each use their own Parser
\* or Scanner and call Parse, Next, Get, Type, GetStringBytes, Visit,
\* MarshalTo, Set, Del and SetArrayItem on values of their own trees, no call
\* writes to a singleton or to the buffer, the cache or the nodes of the
\* other worker, and the two trees share the singletons only.
C19_NoSharedWrites == [][C19_Step]_vars /\ []C19_Shared

\* both workers have called an operation on their trees, which both refer
\* to the singleton valueTrue, and the last call was a mutator
C19_Witness ==
    /\ hist.calls[1] > 0 /\ hist.calls[2] > 0
    /\ valueTrue \in NodesOf(1) \cap NodesOf(2)
    /\ last.op \in {"Set", "Del", "SetArrayItem"}

-----------------------------------------------------------------------------
(* Claims about parseRawNumber *)

\* the length of the longest prefix of s made of number characters
NumberPrefix(s) ==
    With({i \in 1..Len(s) : ~IsNumberChar(s[i])}, LAMBDA stops :
        IF stops = {} THEN Len(s) ELSE Min(stops) - 1)

\* whether s is empty or just a sign
SignOnly(s) == s \in {<<>>, <<Ch.minus>>, <<Ch.plus>>}

\* whether inf or nan, in any letter case, follows the first n bytes of s
SpecialAt(s, n) ==
    /\ Len(s) >= n + 3
    /\ \/ EqualFold(SubSeq(s, n + 1, n + 3), LitInf)
       \/ EqualFold(SubSeq(s, n + 1, n + 3), LitNan)

\* C20: parseRawNumber consumes the longest prefix of digits, '.', '+', '-',
\* 'e' and 'E'; when that prefix is empty or just a sign, it returns the
\* prefix with the inf or nan that follows, and fails if none follows, also
\* when the input ends right after the sign.
C20_RawNumber ==
    last.op = "parseRawNumber" =>
        \A n \in {NumberPrefix(hist.input)} :
            IF SignOnly(SubSeq(hist.input, 1, n))
            THEN IF SpecialAt(hist.input, n)
                 THEN /\ last.ok /\ last.tail = n + 3
                      /\ last.raw = SubSeq(hist.input, 1, n + 3)
                 ELSE ~last.ok
            ELSE /\ last.ok /\ last.tail = n
                 /\ last.raw = SubSeq(hist.input, 1, n)

-----------------------------------------------------------------------------
(* Claims about the string tokenizers *)

\* C21: parseRawString ends the string at the first quote that follows an
\* even number of backslashes, returns the bytes before it and the bytes
\* after it, and fails with the whole input and an empty tail when there is
\* no such quote; parseRawKey returns the same results on every input.
C21_FirstUnescapedQuote ==
    last.op \in {"parseRawString", "parseRawKey"} =>
        /\ \A ends \in {StringQuotes(hist.input)} :
              IF ends = {}
              THEN ~last.ok /\ last.raw = hist.input /\ last.tail = <<>>
              ELSE /\ last.ok
                   /\ last.raw = SubSeq(hist.input, 1, Min(ends) - 1)
                   /\ last.tail = Drop(hist.input, Min(ends))
        /\ last = RawResult(last.op, hist.input, parseRawString(hist.input, 0))

\* a key that ends at its second quote, the first one after one backslash
\* and the second after two
C21_Witness ==
    /\ last.op = "parseRawKey" /\ last.ok /\ last.tail = <<Ch.a>>
    /\ hist.input = <<Ch.bslash, Ch.quote, Ch.bslash, Ch.bslash, Ch.quote, Ch.a>>

-----------------------------------------------------------------------------
(* Claims about the unescaper *)

\* whether the piece p is the escape of a surrogate, high or low
IsEscape(p) == Len(p) = 6 /\ p[1] = Ch.bslash /\ p[2] = Ch.u /\ ParseHex4(SubSeq(p, 3, 6)) >= 0
IsHighEsc(p) ==
    IsEscape(p) /\ ParseHex4(SubSeq(p, 3, 6)) >= 55296 /\ ParseHex4(SubSeq(p, 3, 6)) < 56320
IsLowEsc(p) ==
    IsEscape(p) /\ ParseHex4(SubSeq(p, 3, 6)) >= 56320 /\ ParseHex4(SubSeq(p, 3, 6)) < 57344

\* the bytes the piece p unescapes to when it is the whole string
Alone(p) ==
    With(unescapeInPlace(p, 0, Len(p)), LAMBDA u : SubSeq(u.bs, 1, u.len))

RECURSIVE OrphansLiteral(_)
\* the pieces unescaped one by one, a high surrogate with the low one after
\* it as one code point, every other surrogate escape as its six bytes
OrphansLiteral(ps) ==
    IF ps = <<>> THEN <<>>
    ELSE IF Len(ps) >= 2 /\ IsHighEsc(ps[1]) /\ IsLowEsc(ps[2])
    THEN Utf8(DecodeRune(ParseHex4(SubSeq(ps[1], 3, 6)), ParseHex4(SubSeq(ps[2], 3, 6))))
             \o OrphansLiteral(Tail(Tail(ps)))
    ELSE IF IsHighEsc(ps[1]) \/ IsLowEsc(ps[1])
    THEN ps[1] \o OrphansLiteral(Tail(ps))
    ELSE Alone(ps[1]) \o OrphansLiteral(Tail(ps))

\* C22: unescapeStringBestEffort turns the escape of a high surrogate followed
\* by the escape of a low one into one code point of 4 UTF-8 bytes, and
\* leaves the six bytes of every other surrogate escape unchanged, the bytes
\* after it being decoded as if it were not there.
C22_OrphanSurrogatesLiteral ==
    last.op = "done" => SubSeq(b, 1, last.w) = OrphansLiteral(hist.pieces)

\* C23: while unescapeStringBestEffort writes into the buffer it reads from,
\* the write offset never passes the read offset, at the head of the loop,
\* after the switch and at the return; the bytes not yet read are those of
\* the input; and the result is not longer than the raw string.
C23_WriteBehindRead ==
    /\ last.w <= pos /\ pos <= Len(hist.input)
    /\ Len(b) = Len(hist.input)
    /\ SubSeq(b, pos + 1, Len(b)) = SubSeq(hist.input, pos + 1, Len(b))
    /\ last.op = "case" => last.w < pos

\* after the switch on the escape of A that follows a surrogate pair: four
\* bytes and one more written, eighteen read
C23_Witness ==
    /\ last.op = "copy" /\ hist.pieces = <<EscHigh, EscLow, EscA>>
    /\ last.w = 5 /\ pos = 18

-----------------------------------------------------------------------------
(* Claims about the sign of a float *)

\* whether the result rm, for an input with a leading '-', is the negation
\* of the result rp for the input without it.  A result computed by
\* strconv.ParseFloat carries the sign of the input it was given.
Negation(rm, rp) ==
    \/ rm.path = "slow" \/ rp.path = "slow"
    \/ /\ rm.path = rp.path
       /\ rm.minus /\ ~rp.minus
       /\ rm.d = rp.d /\ rm.frac = rp.frac /\ rm.exp = rp.exp

\* the inputs the claim is about: a leading '-', then a number or inf
SignedNumber ==
    /\ hist.minus
    /\ fastfloatParse(hist.input).path # "error"
    /\ fastfloatParse(Tail(hist.input)).path # "error"

\* C24: for every input with a leading '-' that Parse or ParseBestEffort
\* accepts as a number, the result is the negation of the result for the
\* input without the '-', whether the number is an integer, has its integer
\* or its fractional part elided, has a fraction, an exponent, or is inf.
C24_SignAppliedLast ==
    /\ (last.op = "Parse" /\ SignedNumber)
           => Negation(last.res, fastfloatParse(Tail(hist.input)))
    /\ (last.op = "ParseBestEffort" /\ SignedNumber)
           => Negation(last.res, fastfloatParseBestEffort(Tail(hist.input)))

-----------------------------------------------------------------------------
(* Claims about the value the Scanner yields *)

\* the offsets of the buffer that a raw string or a raw key of the tree of
\* Value() occupies
RawRange(s) == IF s.buf THEN (s.off + 1)..(s.off + s.len) ELSE {}

RawBytes ==
    UNION {IF heap.mem[p].t = typeRawString THEN RawRange(heap.mem[p].s)
           ELSE IF heap.mem[p].t = TypeObject /\ ~heap.mem[p].ku
           THEN UNION {RawRange(heap.mem[p].kvs[i].k) : i \in 1..Len(heap.mem[p].kvs)}
           ELSE {} : p \in ValueNodes}

\* a call writes inside the raw strings and raw keys of the tree only
C25_Step ==
    /\ Len(b') = Len(b) \/ last'.op = "Init"
    /\ last'.op # "Init" => \A i \in 1..Len(b) : b'[i] # b[i] => i \in RawBytes

\* the unscanned tail is the input's, and Next returns what it returns on
\* the scanner whose values were left alone
C25_SameNext ==
    /\ Drop(b, pos) = Drop(hist.input, pos)
    /\ last.op = "Next" =>
          /\ last.ret = last.ref
          /\ pos = hist.ref.pos
          /\ err = hist.ref.err
          /\ last.ret => Tree(b, heap, v, TreeFuel)
                             = Tree(hist.ref.b, hist.ref.H, hist.ref.v, TreeFuel)

\* C25: Type, GetStringBytes, Get, Visit, Set and Del on the values of the
\* tree of Value() write only inside the raw strings and raw keys of that
\* tree, the unscanned tail stays byte for byte the input's, and every later
\* Next returns the same result, error, position and tree as on a scanner
\* whose values were not touched.
C25_TouchKeepsNext == [][C25_Step]_vars /\ []C25_SameNext

\* the second Next has returned a value after calls that unescaped strings
\* of the first value in the buffer
C25_Witness ==
    /\ last.op = "Next" /\ last.ret /\ hist.nexts = 2
    /\ hist.calls > 0
    /\ SubSeq(b, 1, 10) # SubSeq(hist.input, 1, 10)
    /\ Drop(b, pos) = <<>>

-----------------------------------------------------------------------------
(* Claims about a parser used again *)

\* C26: whatever Parse calls, successful or failed, and whatever Type, Get,
\* Set, Del and SetArrayItem calls came before on the same parser, Parse(s)
\* returns the error, the value or nil, the tree (types, payloads, array
\* elements, object entries, keysUnescaped false) and the marshalled text
\* that Parse(s) returns on a new Parser.
C26_ReusedAsFresh ==
    last.op = "Parse" =>
       /\ err = hist.fresh.err
       /\ (v = NIL) = (hist.fresh.v = NIL)
       /\ Tree(b, heap, v, TreeFuel)
              = Tree(hist.fresh.b, hist.fresh.H, hist.fresh.v, TreeFuel)
       /\ \A p \in TreeNodes : heap.mem[p].t = TypeObject => ~heap.mem[p].ku
       /\ v # NIL => ValueMarshalTo(b, heap, v)
                         = ValueMarshalTo(hist.fresh.b, hist.fresh.H, hist.fresh.v)

\* the second Parse, after calls on the tree of the first, returned a tree
\* with an object in slots that were in use before
C26_Witness ==
    /\ last.op = "Parse" /\ hist.parses = 2 /\ hist.calls = MaxCalls - 1
    /\ v # NIL /\ hist.used >= 3
    /\ hist.input = TDoc3

====
